---- MODULE Spec2Model ----
(***************************************************************************)
(* Model of git-mcp.  First the GitLab client (gitlabClient.ts): the       *)
(* process-wide rate-limit state, the pre-request pacing step and the      *)
(* retrying request function gitlabApiRequest.  Then the document resolver *)
(* (fetchDocumentation in commonTools.ts) with the functions it calls      *)
(* (gitlab.ts, r2.ts), its detached work and the two caches; the resolver  *)
(* sees a request of the client as returning null, a response that is not  *)
(* ok, or an ok response.  The cache module is not part of the sources at  *)
(* hand: a cache is one entry per repository that a completed write sets,  *)
(* a lookup reads and the end of its TTL removes.  Last, functions taken   *)
(* on their own, one call at a time: searchGitLabRepo, getRepoData         *)
(* (repoData.ts) and the callback of match_common_libs_owner_repo_mapping  *)
(* (GenericRepoHandler.ts), whose mapping table is not among the sources   *)
(* and holds the entries its tests show.                                   *)
(*                                                                         *)
(* Times are in milliseconds.  A timer (setTimeout) is modelled as taking  *)
(* exactly its delay.  The program reads the clock only in differences     *)
(* resetTime - Date.now(), so the state is kept in a frame that moves with *)
(* the clock: Date.now() always reads Now, and when d ms pass, the one     *)
(* timestamp the program stores (apiRateLimit.resetTime) is moved back by  *)
(* d (Elapse).  Header values are sequences of one-character strings, so   *)
(* that parseInt is computed on the text the server sent.                  *)
(***************************************************************************)
EXTENDS Integers, Sequences, FiniteSets, TLC

VARIABLES
  apiRateLimit,  \* module-level state {remaining, resetTime, limit}
  tokenSet,      \* env.GITLAB_TOKEN is configured
  pc,            \* position of the one logical request
  retryCount,    \* parameter retryCount of the current invocation
  useAuth,       \* parameter useAuth of the current invocation
  callUseAuth,   \* useAuth as given by the caller of the logical request
  calls,         \* logical requests started so far
  outcomes,      \* per attempt of this request: status received, 0 = no response
  tokens,        \* per attempt of this request: PRIVATE-TOKEN was attached
  pace,          \* what respectRateLimits did before the latest attempt
  retryWait,     \* timer delay slept before the latest retry
  lastResp,      \* the response received by the latest attempt
  result         \* what gitlabApiRequest returned

vars == <<apiRateLimit, tokenSet, pc, retryCount, useAuth, callUseAuth,
          calls, outcomes, tokens, pace, retryWait, lastResp, result>>

\* The document resolver (fetchDocumentation) and what it shares with later
\* resolutions.  All resolutions are for one (namespace, project).
VARIABLES
  rpc,           \* position of the resolution in progress
  repoData,      \* argument of the resolution: urlType, namespace && project
  docsBranch,    \* local docsBranch
  content,       \* local content
  fileUsed,      \* local fileUsed
  docsPath,      \* local docsPath
  settled,       \* static-path fetches that have settled, in completion order
  trace,         \* the strategies this resolution has started, in order
  ret,           \* what this resolution returned
  message,       \* the message this resolution handed to the enqueuer
  tasks,         \* detached work handed to ctx.waitUntil and not yet settled
  logged,        \* errors logged since this resolution began
  contentCache,  \* content cache entry of the repository
  pathCache,     \* path cache entry of the repository
  warm           \* a resolution has returned content for the repository and
                 \* the content-cache TTL has not run out since

\* A call of getRepoBranch on its own
VARIABLES
  asked,         \* what the requests of the call are answered
  resolved       \* what the call returned and the requests it issued

\* A call of one of the other functions on its own
VARIABLES
  call,          \* the function called and its arguments
  returned       \* what the call returned

\* Concurrent requests of the client
VARIABLES
  reqs           \* per request: where it stands, the time its timer has
                 \* left, its retryCount, what its latest pacing step did,
                 \* whether it was issued in a state that throttles, and
                 \* the headers it observed last

bvars == <<asked, resolved, call, returned>>

svars == <<rpc, repoData, docsBranch, content, fileUsed, docsPath, settled,
           trace, ret, message, tasks, logged, contentCache, pathCache, warm,
           bvars>>

rvars == <<svars, reqs>>

allvars == <<vars, rvars>>

-----------------------------------------------------------------------------
(* Program constants *)

DEFAULT_DELAY == 1000
MAX_RETRIES == 3
NETWORK_RETRY_DELAY == 2000
RATE_LIMIT_DEFAULT_WAIT == 60000
MAX_THROTTLE_WAIT == 60000
MIN_RETRY_WAIT == 1000
RESET_MARGIN == 1000
LOW_REMAINING == 5
INITIAL_QUOTA == 2000
TOO_MANY_REQUESTS == 429

(* Bounds of the model *)

MaxCalls == 2          \* logical requests per behaviour
StartSeconds == 100    \* epoch second read by Date.now()

-----------------------------------------------------------------------------
(* JavaScript values *)

NaN == [k |-> "NaN", v |-> 0]
NULL == [k |-> "null", v |-> 0]
Num(n) == [k |-> "num", v |-> n]
IsNum(x) == x.k = "num"

\* a < b, a > b on JS numbers: any comparison with NaN is false
JsLt(a, b) == IsNum(a) /\ IsNum(b) /\ a.v < b.v
JsGt(a, b) == IsNum(a) /\ IsNum(b) /\ a.v > b.v
JsAdd(a, b) == IF IsNum(a) /\ IsNum(b) THEN Num(a.v + b.v) ELSE NaN
JsSub(a, b) == IF IsNum(a) /\ IsNum(b) THEN Num(a.v - b.v) ELSE NaN
JsMul(a, b) == IF IsNum(a) /\ IsNum(b) THEN Num(a.v * b.v) ELSE NaN
\* Math.max / Math.min: NaN if either argument is NaN
MathMax(a, b) == IF IsNum(a) /\ IsNum(b) THEN (IF a.v >= b.v THEN a ELSE b) ELSE NaN
MathMin(a, b) == IF IsNum(a) /\ IsNum(b) THEN (IF a.v <= b.v THEN a ELSE b) ELSE NaN

\* setTimeout(resolve, d): a delay that is NaN or negative fires at once
TimerDelay(d) == IF IsNum(d) /\ d.v > 0 THEN d.v ELSE 0

(* Header values: Headers.get(name) is null or a string *)

Absent == [has |-> FALSE, s |-> <<>>]
Str(s) == [has |-> TRUE, s |-> s]
\* truthiness of a string-or-null: null and "" are falsy
Truthy(h) == h.has /\ h.s # <<>>

Digits == <<"0", "1", "2", "3", "4", "5", "6", "7", "8", "9">>
IsDigit(c) == \E i \in 1..10 : Digits[i] = c
DigitVal(c) == (CHOOSE i \in 1..10 : Digits[i] = c) - 1

RECURSIVE SkipSpace(_)
SkipSpace(s) == IF s # <<>> /\ Head(s) = " " THEN SkipSpace(Tail(s)) ELSE s

RECURSIVE DigitRun(_, _)
\* value of the longest prefix of digits, <<>> if there is none
DigitRun(s, acc) ==
  IF s # <<>> /\ IsDigit(Head(s))
    THEN DigitRun(Tail(s), <<(IF acc = <<>> THEN 0 ELSE acc[1]) * 10 + DigitVal(Head(s))>>)
    ELSE acc

\* parseInt(text, 10)
ParseInt(s) ==
  LET t == SkipSpace(s)
      signed == t # <<>> /\ Head(t) \in {"-", "+"}
      neg == t # <<>> /\ Head(t) = "-"
      run == DigitRun(IF signed THEN Tail(t) ELSE t, <<>>)
  IN  IF run = <<>> THEN NaN ELSE Num(IF neg THEN 0 - run[1] ELSE run[1])

RECURSIVE ToDigits(_)
\* decimal text of a natural number, as the server writes it
ToDigits(n) ==
  IF n < 10 THEN <<Digits[n + 1]>> ELSE ToDigits(n \div 10) \o <<Digits[(n % 10) + 1]>>

-----------------------------------------------------------------------------
(* Rate-limit state *)

\* Date.now()
Now == StartSeconds * 1000

\* d ms pass: timestamps move back by d in the frame of the clock
Elapse(rl, d) ==
  [rl EXCEPT !.resetTime = IF IsNum(@) THEN Num(@.v - d) ELSE @]

InitialRateLimit ==
  [remaining |-> Num(INITIAL_QUOTA), resetTime |-> NULL, limit |-> Num(INITIAL_QUOTA)]

\* new Date(parseInt(text, 10) * 1000): the time value, NaN for an Invalid Date
ResetDate(text) == JsMul(ParseInt(text), Num(1000))

\* variant: a missing ratelimit-remaining header resets the field
updateRateLimitResettingMissing(rl, headers) ==
  [remaining |-> IF Truthy(headers.remaining) THEN ParseInt(headers.remaining.s)
                 ELSE Num(INITIAL_QUOTA),
   resetTime |-> IF Truthy(headers.reset) THEN ResetDate(headers.reset.s)
                 ELSE rl.resetTime,
   limit     |-> IF Truthy(headers.limit) THEN ParseInt(headers.limit.s)
                 ELSE rl.limit]

updateRateLimitFromHeaders(rl, headers) ==
  [remaining |-> IF Truthy(headers.remaining) THEN ParseInt(headers.remaining.s)
                 ELSE rl.remaining,
   resetTime |-> IF Truthy(headers.reset) THEN ResetDate(headers.reset.s)
                 ELSE rl.resetTime,
   limit     |-> IF Truthy(headers.limit) THEN ParseInt(headers.limit.s)
                 ELSE rl.limit]

NoPause == [kind |-> "none", ms |-> 0]

\* variant: the throttle wait is not capped
respectRateLimitsUncapped(rl, t) ==
  IF JsLt(rl.remaining, Num(LOW_REMAINING)) /\ rl.resetTime # NULL
    THEN LET timeUntilReset == JsSub(rl.resetTime, Num(t))
         IN  IF JsGt(timeUntilReset, Num(0))
               THEN [kind |-> "throttle",
                     ms |-> TimerDelay(JsAdd(timeUntilReset, Num(RESET_MARGIN)))]
               ELSE NoPause
    ELSE [kind |-> "delay", ms |-> DEFAULT_DELAY]

\* respectRateLimits: which suspension it performs, and for how long
respectRateLimits(rl, t) ==
  IF JsLt(rl.remaining, Num(LOW_REMAINING)) /\ rl.resetTime # NULL
    THEN LET timeUntilReset == JsSub(rl.resetTime, Num(t))
         IN  IF JsGt(timeUntilReset, Num(0))
               THEN [kind |-> "throttle",
                     ms |-> TimerDelay(MathMin(JsAdd(timeUntilReset, Num(RESET_MARGIN)),
                                               Num(MAX_THROTTLE_WAIT)))]
               ELSE NoPause
    ELSE [kind |-> "delay", ms |-> DEFAULT_DELAY]

\* variant: the reset time is ignored
RateLimitWaitTimeFlat(rl, t) == Num(MIN_RETRY_WAIT)

\* waitTime of the 429 branch
RateLimitWaitTime(rl, t) ==
  IF rl.resetTime # NULL
    THEN MathMax(Num(MIN_RETRY_WAIT),
                 JsAdd(JsSub(rl.resetTime, Num(t)), Num(RESET_MARGIN)))
    ELSE Num(RATE_LIMIT_DEFAULT_WAIT)

\* variant: server errors are retried as well
IsRateLimitedOrServerError(status) == status = TOO_MANY_REQUESTS \/ status >= 500

\* response.status === 429
IsRateLimited(status) == status = TOO_MANY_REQUESTS

\* variant: off by one
RetriesRemainInclusive(rc) == rc <= MAX_RETRIES

\* retryCount < MAX_RETRIES, the guard of both retry branches
RetriesRemain(rc) == rc < MAX_RETRIES

\* variant: the inter-request delay is used
NetworkRetryWaitShort == Num(DEFAULT_DELAY)

\* the delay of the timer before a retry after a network error
NetworkRetryWait == Num(NETWORK_RETRY_DELAY)

\* the useAuth the recursive call runs with: the call passes four arguments,
\* so the fifth takes its default
RetryUseAuth(u) == TRUE

\* headers.set("PRIVATE-TOKEN", ...) is executed
AttachesToken(u, configured) == u /\ configured

NoHeaders == [remaining |-> Absent, reset |-> Absent, limit |-> Absent]
NoResponse == [status |-> 0, headers |-> NoHeaders, id |-> 0]
NoResult == [kind |-> "pending", resp |-> NoResponse]

\* return null
NullResult == [kind |-> "null", resp |-> NoResponse]

\* variant: an HTTP error is turned into null
ResponseResultNullOnError(resp) ==
  IF resp.status >= 400 THEN NullResult ELSE [kind |-> "response", resp |-> resp]

\* return response
ResponseResult(resp) == [kind |-> "response", resp |-> resp]

-----------------------------------------------------------------------------
(* Environment: what the server may answer *)

Statuses == {200, 404, 429, 500}

\* ratelimit-reset is in epoch seconds: so many seconds after the response
ResetOffsets == {5, 90}
ResetText(o) == Str(ToDigits((Now \div 1000) + o))

RemainingTexts == {Absent, Str(<<"3">>), Str(<<"5", "0">>)}
ResetTexts == {Absent, Str(<<"x">>)} \cup {ResetText(o) : o \in ResetOffsets}
LimitTexts == {Absent, Str(<<"6", "0">>)}

\* the server sends ratelimit-limit together with ratelimit-remaining
Headers ==
  {h \in [remaining : RemainingTexts, reset : ResetTexts, limit : LimitTexts] :
     h.limit.has = h.remaining.has}

\* header values for the observations of SpecObserve: also empty, signed and
\* zero values
ObservedHeaders ==
  [remaining : {Absent, Str(<<>>), Str(<<"x">>), Str(<<"0">>), Str(<<"3">>),
                Str(<<"-", "1">>)},
   reset     : {Absent, Str(<<>>), Str(<<"x">>), ResetText(5)},
   limit     : {Absent, Str(<<>>), Str(<<"0">>), Str(<<"6", "0">>)}]

-----------------------------------------------------------------------------
(* The document resolver: values and functions.  A path is the sequence of  *)
(* its "/"-separated segments.  A text is identified by the path of the     *)
(* file it was read from; the empty string is the empty text.               *)

NullContent == [kind |-> "null", text |-> <<>>]
EmptyContent == [kind |-> "text", text |-> <<>>]
FileContent(path) == [kind |-> "text", text |-> path]
\* a promise that rejects instead of yielding a string or null
Rejected == [kind |-> "rejected", text |-> <<>>]

\* !content, for content: string | null
Falsy(c) == c.kind = "null" \/ c.text = <<>>

\* what gitlabApiRequest returns: null, a response that is not ok, an ok one
ApiResults == {"null", "notok", "ok"}

\* response && response.ok
Succeeded(response) == response = "ok"

\* reading the body of a response: it fails, or yields "" or a text
Bodies == {"unreadable", "empty", "text"}

\* fetchRawFile: null unless the response is ok, else response.text()
fetchRawFile(response, body, path) ==
  IF ~Succeeded(response) THEN NullContent
  ELSE IF body = "unreadable" THEN Rejected
  ELSE IF body = "empty" THEN EmptyContent
  ELSE FileContent(path)

fetchFileFromGitLab(response, body, path) == fetchRawFile(response, body, path)

\* docsPath = ""
NoPath == [kind |-> "none", branch |-> "", path |-> <<>>]
\* docsPath = result.path: a path within the repository, not a URL
PlainPath(path) == [kind |-> "path", branch |-> "", path |-> path]
\* `${baseUrl}/${namespace}/${project}/-/raw/${branch}/${path}`
constructGitlabUrl(branch, path) ==
  [kind |-> "url", branch |-> branch, path |-> path]

possibleLocations ==
  << <<"docs", "docs", "llms.txt">>, <<"llms.txt">>, <<"docs", "llms.txt">> >>

LLMS_TXT == <<"llms.txt">>
\* the query "README+path:/" holds one "/"
README_QUERY == <<"README+path:", "">>

\* path.split("/").pop()
Basename(path) == path[Len(path)]

NoRet == [fileUsed |-> "", content |-> NullContent]
\* the promise of fetchDocumentation rejected
Threw == [fileUsed |-> "", content |-> Rejected]
NoEntry == NoRet
NoPathEntry == [path |-> <<>>, branch |-> "", filename |-> <<>>]
NoMessage ==
  [file_url |-> NoPath, content_length |-> 0, file_used |-> "",
   docs_branch |-> ""]

SENTINEL == [kind |-> "text", text |-> <<"No documentation found.">>]
GENERATED == [kind |-> "text", text |-> <<"pre-generated llms.txt">>]

\* the least element of a non-empty set of integers
First(S) == CHOOSE x \in S : \A y \in S : x <= y

\* the body of the project-metadata response, as response.json() yields it
MetaBodies ==
  {[readable |-> FALSE, default_branch |-> ""],
   [readable |-> TRUE, default_branch |-> ""],
   [readable |-> TRUE, default_branch |-> "master"]}

\* variant of getRepoBranch that asks for the metadata again when both
\* probes fail
getRepoBranchAskingAgain(meta, data, main, master) ==
  IF Succeeded(meta) /\ ~data.readable
    THEN [branch |-> "main", requests |-> <<"metadata">>]
  ELSE IF Succeeded(meta) /\ data.default_branch # ""
    THEN [branch |-> data.default_branch, requests |-> <<"metadata">>]
  ELSE IF Succeeded(main)
    THEN [branch |-> "main", requests |-> <<"metadata", "main">>]
  ELSE IF Succeeded(master)
    THEN [branch |-> "master", requests |-> <<"metadata", "main", "master">>]
  ELSE [branch |-> "main",
        requests |-> <<"metadata", "main", "master", "metadata">>]

\* getRepoBranch, given what its requests are answered: the branch it
\* returns and the requests it issues
getRepoBranch(meta, data, main, master) ==
  IF Succeeded(meta) /\ ~data.readable
    THEN \* response.json() throws: the catch block
         [branch |-> "main", requests |-> <<"metadata">>]
  ELSE IF Succeeded(meta) /\ data.default_branch # ""
    THEN [branch |-> data.default_branch, requests |-> <<"metadata">>]
  ELSE IF Succeeded(main)
    THEN [branch |-> "main", requests |-> <<"metadata", "main">>]
  ELSE IF Succeeded(master)
    THEN [branch |-> "master", requests |-> <<"metadata", "main", "master">>]
  ELSE \* throw new Error(...): the catch block
       [branch |-> "main", requests |-> <<"metadata", "main", "master">>]

\* what the project-metadata response may hold in SpecBranch
AskedBodies == MetaBodies \cup {[readable |-> TRUE, default_branch |-> "develop"]}

\* what the three requests of getRepoBranch may be answered
BranchInputs ==
  [meta : ApiResults, data : AskedBodies, main : ApiResults,
   master : ApiResults]

NoAsk ==
  [meta |-> "", data |-> [readable |-> FALSE, default_branch |-> ""],
   main |-> "", master |-> ""]
NoBranch == [branch |-> "", requests |-> <<>>]
NoCall == [fn |-> "none"]

\* the concurrent requests, and a request that has not been made
Requests == {1, 2}
NoRequest ==
  [pc |-> "idle", left |-> 0, retryCount |-> 0, paced |-> NoPause,
   raced |-> FALSE, seen |-> NoHeaders]

\* await Promise.all(...): the results in the order of possibleLocations,
\* whatever the order the fetches settled in
PromiseAll(s) ==
  [i \in DOMAIN possibleLocations |->
     [content |-> (CHOOSE e \in {s[k] : k \in DOMAIN s} : e.location = i).content,
      location |-> possibleLocations[i]]]

NotSelected ==
  [found |-> FALSE, content |-> NullContent, fileUsed |-> "", docsPath |-> NoPath]

\* variant: the fetch that settles first with a result wins
StaticSelectFirstSettled(s, branch) ==
  LET hits == {k \in DOMAIN s : s[k].content.kind # "null"}
  IN  IF hits = {} THEN NotSelected
      ELSE [found |-> TRUE, content |-> s[First(hits)].content,
            fileUsed |-> "llms.txt",
            docsPath |-> constructGitlabUrl(
                           branch, possibleLocations[s[First(hits)].location])]

\* the loop over possibleLocations: results.find(r => r.location === location
\* && r.content !== null), the first location with a result and break
StaticSelect(s, branch) ==
  LET results == PromiseAll(s)
      Find(l) == {k \in DOMAIN results :
                    /\ results[k].location = possibleLocations[l]
                    /\ results[k].content.kind # "null"}
      hits == {l \in DOMAIN possibleLocations : Find(l) # {}}
  IN  IF hits = {} THEN NotSelected
      ELSE LET mainResult == results[First(Find(First(hits)))]
           IN  [found |-> TRUE, content |-> mainResult.content,
                fileUsed |-> "llms.txt",
                docsPath |-> constructGitlabUrl(branch, mainResult.location)]

\* item.filename || item.path?.split('/').pop()
ItemFilename(item) ==
  IF item.filename # <<>> THEN item.filename ELSE <<Basename(item.path)>>

\* variant of searchFileByName without the exact-match filter
searchFileByNameAny(response, readable, results, filename) ==
  IF ~Succeeded(response) THEN [kind |-> "null", items |-> <<>>]
  ELSE IF ~readable THEN [kind |-> "rejected", items |-> <<>>]
  ELSE [kind |-> "data", items |-> [k \in DOMAIN results |-> results[k].path]]

\* searchFileByName: null, or the paths of the exact filename matches
searchFileByName(response, readable, results, filename) ==
  IF ~Succeeded(response) THEN [kind |-> "null", items |-> <<>>]
  ELSE IF ~readable THEN [kind |-> "rejected", items |-> <<>>]
  ELSE LET exactMatches ==
             SelectSeq(results, LAMBDA item : ItemFilename(item) = filename)
       IN  [kind |-> "data",
            items |-> [k \in DOMAIN exactMatches |-> exactMatches[k].path]]

SearchMiss(requests) ==
  [found |-> FALSE, content |-> NullContent, path |-> <<>>,
   requests |-> requests, write |-> NoPathEntry]

\* variant of searchGitLabRepo: a cached path whose fetch yields nothing is
\* followed by a fresh search
searchGitLabRepoFallingBack(cachedFile, in, filename, branch) ==
  LET data == searchFileByName(in.response, in.readable, in.results, filename)
      cached == fetchFileFromGitLab(in.fetchResponse, in.fetchBody,
                                    cachedFile.path)
      stale == cachedFile.path # <<>> /\ (cached = Rejected \/ Falsy(cached))
      searched == cachedFile.path = <<>> \/ stale
      before == IF stale THEN <<"raw">> ELSE <<>>
  IN  IF searched /\ (data.kind # "data" \/ Len(data.items) = 0)
        THEN SearchMiss(before \o <<"search">>)
      ELSE
        LET filePath == IF searched THEN data.items[1] ELSE cachedFile.path
            fetched == fetchFileFromGitLab(in.fetchResponse, in.fetchBody, filePath)
            requests == before \o (IF searched THEN <<"search">> ELSE <<>>)
                          \o <<"raw">>
        IN  IF fetched # Rejected /\ ~Falsy(fetched)
              THEN [found |-> TRUE, content |-> fetched, path |-> filePath,
                    requests |-> requests,
                    write |-> [path |-> filePath, branch |-> branch,
                               filename |-> filename]]
              ELSE SearchMiss(requests)

\* searchGitLabRepo(namespace, project, filename, branch, env, ctx), given
\* the path-cache entry it reads and what its requests are answered (in):
\* its result, the requests it issues and the path-cache write it schedules
searchGitLabRepo(cachedFile, in, filename, branch) ==
  LET searched == cachedFile.path = <<>>
      data == searchFileByName(in.response, in.readable, in.results, filename)
  IN  IF searched /\ (data.kind # "data" \/ Len(data.items) = 0)
        THEN SearchMiss(<<"search">>)
      ELSE
        LET filePath == IF searched THEN data.items[1] ELSE cachedFile.path
            fetched == fetchFileFromGitLab(in.fetchResponse, in.fetchBody, filePath)
            requests == (IF searched THEN <<"search">> ELSE <<>>) \o <<"raw">>
        IN  IF fetched # Rejected /\ ~Falsy(fetched)
              THEN [found |-> TRUE, content |-> fetched, path |-> filePath,
                    requests |-> requests,
                    write |-> [path |-> filePath, branch |-> branch,
                               filename |-> filename]]
              ELSE SearchMiss(requests)

\* what env.DOCS_BUCKET.get(...) does: it throws, finds nothing, or yields
\* an object whose body is "" or a text
BucketReads == {"throws", "missing", "empty", "text"}

\* fetchFileFromR2(namespace, project, "llms.txt", env)
fetchFileFromR2(bound, obj) ==
  IF ~bound \/ obj \in {"throws", "missing"} THEN NullContent
  ELSE IF obj = "empty" THEN EmptyContent
  ELSE GENERATED

ROOT_README == [filename |-> <<"README.md">>, path |-> <<"README.md">>]
NESTED_LLMS == [filename |-> <<"llms.txt">>, path |-> <<"sub", "llms.txt">>]
\* an item without a filename field
UNNAMED_LLMS == [filename |-> <<>>, path |-> <<"sub", "llms.txt">>]

\* what the search API may list
SearchLists ==
  {<<>>, <<ROOT_README>>, <<ROOT_README, NESTED_LLMS>>,
   <<UNNAMED_LLMS, NESTED_LLMS>>}

SearchInputs ==
  [response : ApiResults, readable : BOOLEAN, results : SearchLists,
   fetchResponse : ApiResults, fetchBody : Bodies]

\* a resolution starts when the sends of the earlier ones have settled and
\* at most so many cache writes pend
MaxPending == 1

\* the orders in which the static-path fetches may settle
SettleOrders ==
  {o \in [DOMAIN possibleLocations -> DOMAIN possibleLocations] :
     \A a, b \in DOMAIN o : a # b => o[a] # o[b]}

\* what the fetch of a path may yield
RawOutcomes(path) ==
  {fetchFileFromGitLab(response, body, path) :
     response \in ApiResults, body \in Bodies}

\* the three fetches, settled in some order with some outcomes
SettledProbes ==
  UNION {{[k \in DOMAIN o |-> [location |-> o[k], content |-> c[o[k]]]] :
            o \in SettleOrders} :
         c \in {c \in [DOMAIN possibleLocations ->
                         UNION {RawOutcomes(possibleLocations[i]) :
                                  i \in DOMAIN possibleLocations}] :
                  \A i \in DOMAIN possibleLocations :
                    c[i] \in RawOutcomes(possibleLocations[i])}}

\* what the probe comes to: Promise.all rejects, or the loop selects
ProbeOutcomes(branch) ==
  {IF \E k \in DOMAIN s : s[k].content = Rejected
     THEN [rejected |-> TRUE, found |-> FALSE, content |-> NullContent,
           fileUsed |-> "", docsPath |-> NoPath]
     ELSE [rejected |-> FALSE] @@ StaticSelect(s, branch) : s \in SettledProbes}

\* what a call of searchGitLabRepo may come to
SearchOutcomes(cachedFile, filename, branch) ==
  {searchGitLabRepo(cachedFile, in, filename, branch) : in \in SearchInputs}

\* what fetchFileFromR2 may yield
BlobOutcomes ==
  {fetchFileFromR2(bound, obj) : bound \in BOOLEAN, obj \in BucketReads}

\* the outcomes of getRepoBranch
BranchOutcomes ==
  {getRepoBranch(meta, data, main, master) :
     meta \in ApiResults, data \in MetaBodies, main \in ApiResults,
     master \in ApiResults}

\* the outcomes of the static-path probe, by the branch probed
ProbeOutcomesOn ==
  [branch \in {b.branch : b \in BranchOutcomes} |-> ProbeOutcomes(branch)]

RepoDatas ==
  {[urlType |-> "gitlab", hasRepo |-> TRUE],
   [urlType |-> "unknown", hasRepo |-> TRUE],
   [urlType |-> "unknown", hasRepo |-> FALSE]}

\* detached work handed to ctx.waitUntil
EnqueueTask == [kind |-> "enqueue", result |-> NoRet, entry |-> NoPathEntry]
\* variant: the cache write stores the content under another label
ContentWriteRelabelled(r) ==
  [kind |-> "cacheFetchDocResult",
   result |-> [r EXCEPT !.fileUsed = "cache"], entry |-> NoPathEntry]
\* cacheFetchDocResult(namespace, project, result, cacheTTL, env)
ContentWrite(r) ==
  [kind |-> "cacheFetchDocResult", result |-> r, entry |-> NoPathEntry]
PathWrite(e) == [kind |-> "cacheFilePath", result |-> NoRet, entry |-> e]

ResolverInit ==
  /\ rpc = "idle"
  /\ repoData = [urlType |-> "unknown", hasRepo |-> FALSE]
  /\ docsBranch = ""
  /\ content = NullContent
  /\ fileUsed = "unknown"
  /\ docsPath = NoPath
  /\ settled = <<>>
  /\ trace = <<>>
  /\ ret = NoRet
  /\ message = NoMessage
  /\ tasks = {}
  /\ logged = {}
  /\ contentCache = NoEntry
  /\ pathCache = NoPathEntry
  /\ warm = FALSE
  /\ asked = NoAsk
  /\ resolved = NoBranch
  /\ call = NoCall
  /\ returned = NoCall
  /\ reqs = [i \in Requests |-> NoRequest]

-----------------------------------------------------------------------------
Init ==
  /\ apiRateLimit = InitialRateLimit
  /\ tokenSet \in BOOLEAN
  /\ pc = "idle"
  /\ retryCount = 0
  /\ useAuth = TRUE
  /\ callUseAuth = TRUE
  /\ calls = 0
  /\ outcomes = <<>>
  /\ tokens = <<>>
  /\ pace = NoPause
  /\ retryWait = 0
  /\ lastResp = NoResponse
  /\ result = NoResult
  /\ ResolverInit

\* a caller invokes gitlabApiRequest(url, options, env, 0, u)
Call(u) ==
  /\ pc \in {"idle", "done"}
  /\ calls < MaxCalls
  /\ calls' = calls + 1
  /\ useAuth' = u
  /\ callUseAuth' = u
  /\ retryCount' = 0
  /\ outcomes' = <<>>
  /\ tokens' = <<>>
  /\ pace' = NoPause
  /\ retryWait' = 0
  /\ lastResp' = NoResponse
  /\ result' = NoResult
  /\ pc' = "respect"
  /\ UNCHANGED <<apiRateLimit, tokenSet>>
  /\ UNCHANGED rvars

\* await respectRateLimits()
Respect ==
  /\ pc = "respect"
  /\ pace' = respectRateLimits(apiRateLimit, Now)
  /\ apiRateLimit' = Elapse(apiRateLimit, pace'.ms)
  /\ pc' = "issue"
  /\ UNCHANGED <<tokenSet, retryCount, useAuth, callUseAuth, calls,
                 outcomes, tokens, retryWait, lastResp, result>>
  /\ UNCHANGED rvars

\* the headers are built and fetch(url, ...) is called
Issue ==
  /\ pc = "issue"
  /\ tokens' = Append(tokens, AttachesToken(useAuth, tokenSet))
  /\ pc' = "inflight"
  /\ UNCHANGED <<apiRateLimit, tokenSet, retryCount, useAuth, callUseAuth,
                 calls, outcomes, pace, retryWait, lastResp, result>>
  /\ UNCHANGED rvars

\* variant: the retry goes straight to fetch, past respectRateLimits
RetryUnpaced(rl, wait) ==
  /\ retryWait' = wait
  /\ apiRateLimit' = Elapse(rl, wait)
  /\ retryCount' = retryCount + 1
  /\ useAuth' = RetryUseAuth(useAuth)
  /\ pc' = "issue"
  /\ UNCHANGED result

\* the recursive call gitlabApiRequest(url, options, env, retryCount + 1),
\* entered once the timer of `wait` ms has fired
Retry(rl, wait) ==
  /\ retryWait' = wait
  /\ apiRateLimit' = Elapse(rl, wait)
  /\ retryCount' = retryCount + 1
  /\ useAuth' = RetryUseAuth(useAuth)
  /\ pc' = "respect"
  /\ UNCHANGED result

Return(rl, r) ==
  /\ result' = r
  /\ apiRateLimit' = rl
  /\ pc' = "done"
  /\ UNCHANGED <<retryCount, useAuth, retryWait>>

\* variant: the catch block sets the rate-limit state back to its defaults
FetchFailsResetting ==
  /\ pc = "inflight"
  /\ outcomes' = Append(outcomes, 0)
  /\ IF RetriesRemain(retryCount)
       THEN Retry(InitialRateLimit, TimerDelay(NetworkRetryWait))
       ELSE Return(InitialRateLimit, NullResult)
  /\ UNCHANGED <<tokenSet, callUseAuth, calls, tokens, pace, lastResp>>
  /\ UNCHANGED rvars

\* fetch rejects: the catch block
FetchFails ==
  /\ pc = "inflight"
  /\ outcomes' = Append(outcomes, 0)
  /\ IF RetriesRemain(retryCount)
       THEN Retry(apiRateLimit, TimerDelay(NetworkRetryWait))
       ELSE Return(apiRateLimit, NullResult)
  /\ UNCHANGED <<tokenSet, callUseAuth, calls, tokens, pace, lastResp>>
  /\ UNCHANGED rvars

\* fetch resolves with a response
FetchResponds ==
  /\ pc = "inflight"
  /\ \E st \in Statuses, h \in Headers :
       LET resp == [status |-> st, headers |-> h, id |-> Len(outcomes) + 1]
           rl == updateRateLimitFromHeaders(apiRateLimit, h)
       IN  /\ lastResp' = resp
           /\ outcomes' = Append(outcomes, st)
           /\ IF IsRateLimited(st) /\ RetriesRemain(retryCount)
                THEN Retry(rl, TimerDelay(RateLimitWaitTime(rl, Now)))
                ELSE Return(rl, ResponseResult(resp))
  /\ UNCHANGED <<tokenSet, callUseAuth, calls, tokens, pace>>
  /\ UNCHANGED rvars

Next ==
  \/ \E u \in BOOLEAN : Call(u)
  \/ Respect
  \/ Issue
  \/ FetchFails
  \/ FetchResponds

Spec == Init /\ [][Next]_allvars

\* updateRateLimitFromHeaders(response.headers) applied to one response after
\* another, with no request of the model in progress
Observe ==
  /\ pc = "idle"
  /\ \E h \in ObservedHeaders :
       /\ apiRateLimit' = updateRateLimitFromHeaders(apiRateLimit, h)
       /\ lastResp' = [status |-> 200, headers |-> h, id |-> 0]
  /\ UNCHANGED <<tokenSet, pc, retryCount, useAuth, callUseAuth, calls,
                 outcomes, tokens, pace, retryWait, result>>
  /\ UNCHANGED rvars

NextObserve == Observe

SpecObserve == Init /\ [][NextObserve]_allvars

\* Requests of the client that run concurrently.  A request sleeps on a timer
\* (left > 0) or is ready to go on; time passes up to the timer that fires
\* next; a fetch takes no time of its own.

\* the retries the server causes in all, by answering 429 or not at all
MaxRaceRetries == 2

\* the headers of the responses
RaceHeaders == {h \in Headers : h.reset \in {Absent, ResetText(5)}}

RaceUnchanged ==
  /\ UNCHANGED <<tokenSet, pc, retryCount, useAuth, callUseAuth, calls,
                 outcomes, tokens, pace, retryWait, result>>
  /\ UNCHANGED svars

RECURSIVE SumRetries(_)
SumRetries(S) ==
  IF S = {} THEN 0
  ELSE LET i == CHOOSE i \in S : TRUE
       IN  reqs[i].retryCount + SumRetries(S \ {i})

\* await respectRateLimits() up to its timer
Paced(r) ==
  LET p == respectRateLimits(apiRateLimit, Now)
  IN  [r EXCEPT !.pc = "paced", !.paced = p, !.left = p.ms]

\* gitlabApiRequest(url, options, env) is called
RaceCall(i) ==
  /\ reqs[i].pc = "idle"
  /\ reqs' = [reqs EXCEPT ![i] = Paced(@)]
  /\ UNCHANGED <<apiRateLimit, lastResp>>
  /\ RaceUnchanged

\* time passes until the next timer fires
RaceTick ==
  LET sleepers == {i \in Requests : reqs[i].pc \in {"paced", "retrywait"}}
  IN  /\ sleepers # {}
      /\ \A i \in sleepers : reqs[i].left > 0
      /\ \E j \in sleepers :
           /\ \A i \in sleepers : reqs[j].left <= reqs[i].left
           /\ reqs' = [i \in Requests |->
                         IF i \in sleepers
                           THEN [reqs[i] EXCEPT !.left = @ - reqs[j].left]
                           ELSE reqs[i]]
           /\ apiRateLimit' = Elapse(apiRateLimit, reqs[j].left)
      /\ UNCHANGED lastResp
      /\ RaceUnchanged

\* the timer of the pacing step has fired: fetch(url, ...) is called
RaceIssue(i) ==
  /\ reqs[i].pc = "paced"
  /\ reqs[i].left = 0
  /\ reqs' = [reqs EXCEPT ![i] =
                [@ EXCEPT !.pc = "inflight",
                          !.raced = /\ JsLt(apiRateLimit.remaining,
                                            Num(LOW_REMAINING))
                                    /\ JsGt(apiRateLimit.resetTime, Num(Now))
                                    /\ reqs[i].paced.kind # "throttle"]]
  /\ UNCHANGED <<apiRateLimit, lastResp>>
  /\ RaceUnchanged

\* the response of a request arrives and is observed
RaceResponds(i) ==
  /\ reqs[i].pc = "inflight"
  /\ \E st \in {200, TOO_MANY_REQUESTS}, h \in RaceHeaders :
       LET rl == updateRateLimitFromHeaders(apiRateLimit, h)
       IN  /\ IsRateLimited(st) => SumRetries(Requests) < MaxRaceRetries
           /\ apiRateLimit' = rl
           /\ lastResp' = [status |-> st, headers |-> h, id |-> i]
           /\ reqs' = [reqs EXCEPT ![i] =
                         IF IsRateLimited(st) /\ RetriesRemain(@.retryCount)
                           THEN [@ EXCEPT
                                   !.pc = "retrywait",
                                   !.left = TimerDelay(RateLimitWaitTime(rl, Now)),
                                   !.retryCount = @ + 1,
                                   !.seen = h]
                           ELSE [@ EXCEPT !.pc = "done", !.seen = h]]
  /\ RaceUnchanged

\* the fetch of a request rejects
RaceFails(i) ==
  /\ reqs[i].pc = "inflight"
  /\ SumRetries(Requests) < MaxRaceRetries
  /\ reqs' = [reqs EXCEPT ![i] =
                IF RetriesRemain(@.retryCount)
                  THEN [@ EXCEPT !.pc = "retrywait",
                                 !.left = TimerDelay(NetworkRetryWait),
                                 !.retryCount = @ + 1,
                                 !.seen = NoHeaders]
                  ELSE [@ EXCEPT !.pc = "done", !.seen = NoHeaders]]
  /\ UNCHANGED <<apiRateLimit, lastResp>>
  /\ RaceUnchanged

\* the timer before a retry has fired: the recursive call
RaceRetry(i) ==
  /\ reqs[i].pc = "retrywait"
  /\ reqs[i].left = 0
  /\ reqs' = [reqs EXCEPT ![i] = Paced(@)]
  /\ UNCHANGED <<apiRateLimit, lastResp>>
  /\ RaceUnchanged

NextRace ==
  \/ \E i \in Requests : RaceCall(i)
  \/ RaceTick
  \/ \E i \in Requests : RaceIssue(i)
  \/ \E i \in Requests : RaceResponds(i)
  \/ \E i \in Requests : RaceFails(i)
  \/ \E i \in Requests : RaceRetry(i)

SpecRace == Init /\ [][NextRace]_allvars

-----------------------------------------------------------------------------
(* The document resolver: fetchDocumentation.  An action is the code that   *)
(* runs when an awaited promise settles, up to the next await; the last     *)
(* stretch, from the dispatch to the enqueuer to the return, is two         *)
(* actions with nothing in between.  The locals end with the return.        *)

\* variant: the send has settled before the enqueuer is left
enqueueDocumentationProcessingAwaited(queue, c, f, p, b) ==
  IF queue
    THEN [message |-> [file_url |-> p,
                       content_length |-> IF Falsy(c) THEN 0 ELSE 1,
                       file_used |-> f, docs_branch |-> b],
          tasks |-> {}, logged |-> {}]
    ELSE [message |-> NoMessage, tasks |-> {},
          logged |-> {"queue unavailable"}]

\* enqueueDocumentationProcessing(...) up to its await of MY_QUEUE.send:
\* the message, the send left pending, and what is logged
enqueueDocumentationProcessing(queue, c, f, p, b) ==
  IF queue
    THEN [message |-> [file_url |-> p,
                       \* content?.length: 1 stands for any positive length
                       content_length |-> IF Falsy(c) THEN 0 ELSE 1,
                       file_used |-> f, docs_branch |-> b],
          tasks |-> {EnqueueTask}, logged |-> {}]
    ELSE [message |-> NoMessage, tasks |-> {},
          logged |-> {"queue unavailable"}]

NoDispatch == [message |-> NoMessage, tasks |-> {}, logged |-> {}]

\* the cascade is over with content c, fileUsed f and docsPath p, ts the
\* detached work pending and lg what was logged so far:
\* if (namespace && project) ctx.waitUntil(enqueueDocumentationProcessing(...))
Dispatch(has, c, f, p, ts, lg) ==
  /\ content' = c
  /\ fileUsed' = f
  /\ docsPath' = p
  /\ \E queue \in BOOLEAN :
       LET d == IF has
                  THEN enqueueDocumentationProcessing(queue, c, f, p, docsBranch)
                  ELSE NoDispatch
       IN  /\ message' = d.message
           /\ logged' = lg \cup d.logged
           /\ tasks' = ts \cup d.tasks
  /\ rpc' = "dispatched"

\* variant: a cached result is relabelled on the way out
ReturnCachedRelabelled(cachedResult) ==
  [cachedResult EXCEPT !.fileUsed = "cache"]

\* return cachedResult
ReturnCached(cachedResult) == cachedResult

\* the content-cache lookup: the live entry of the repository, if any
getCachedFetchDocResult(entry) == entry

\* variant: the search is tried whatever the static paths yielded
TriesSearchAlways(c) == TRUE

\* if (!content) after the static-path probe
TriesSearch(c) == Falsy(c)

\* fetchDocumentation({repoData, env, ctx}) is called
Start(rd) ==
  /\ rpc \in {"idle", "returned", "threw"}
  /\ EnqueueTask \notin tasks
  /\ Cardinality(tasks) <= MaxPending
  /\ repoData' = rd
  /\ settled' = <<>>
  /\ trace' = <<>>
  /\ ret' = NoRet
  /\ IF rd.hasRepo
       THEN \* await getCachedFetchDocResult(namespace, project, env)
            /\ rpc' = "check"
            /\ logged' = {}
            /\ UNCHANGED <<content, fileUsed, docsPath, message, tasks>>
       ELSE \* no branch is taken, nothing is dispatched
            Dispatch(FALSE, NullContent, "unknown", NoPath, tasks, {})
  /\ UNCHANGED <<docsBranch, contentCache, pathCache, warm>>
  /\ UNCHANGED <<vars, bvars, reqs>>

\* the content-cache lookup settles
CacheCheck ==
  /\ rpc = "check"
  /\ LET cachedResult == getCachedFetchDocResult(contentCache)
     IN  IF cachedResult # NoEntry
           THEN \* return cachedResult
                /\ ret' = ReturnCached(cachedResult)
                /\ rpc' = "returned"
                /\ warm' = TRUE
                /\ UNCHANGED <<content, fileUsed, docsPath, trace, message,
                               tasks, logged>>
           ELSE IF repoData.urlType = "gitlab"
             THEN \* await getRepoBranch(namespace, project, env)
                  /\ rpc' = "branch"
                  /\ trace' = <<"getRepoBranch">>
                  /\ UNCHANGED <<content, fileUsed, docsPath, ret, message,
                                 tasks, logged, warm>>
           ELSE IF repoData.urlType = "subdomain"
             THEN \* await fetchFileWithRobotsTxtCheck(baseURL + "llms.txt")
                  /\ rpc' = "llms"
                  /\ trace' = <<"llms.txt">>
                  /\ UNCHANGED <<content, fileUsed, docsPath, ret, message,
                                 tasks, logged, warm>>
             ELSE /\ Dispatch(TRUE, NullContent, "unknown", NoPath, tasks,
                              logged)
                  /\ UNCHANGED <<ret, trace, warm>>
  /\ UNCHANGED <<repoData, docsBranch, settled, contentCache, pathCache>>
  /\ UNCHANGED <<vars, bvars, reqs>>

\* getRepoBranch settles; the three static-path fetches are started
Branch ==
  /\ rpc = "branch"
  /\ \E b \in BranchOutcomes : docsBranch' = b.branch
  /\ trace' = Append(trace, "static")
  /\ rpc' = "probe"
  /\ UNCHANGED <<repoData, content, fileUsed, docsPath, settled, ret, message,
                 tasks, logged, contentCache, pathCache, warm>>
  /\ UNCHANGED <<vars, bvars, reqs>>

\* one of the static-path fetches settles; Promise.all rejects with the
\* first of them that rejects
ProbeSettles ==
  /\ rpc = "probe"
  /\ \E i \in DOMAIN possibleLocations \ {settled[k].location : k \in DOMAIN settled} :
     \E fetched \in RawOutcomes(possibleLocations[i]) :
       /\ settled' = Append(settled, [location |-> i, content |-> fetched])
       /\ IF fetched = Rejected
            THEN rpc' = "threw" /\ ret' = Threw
            ELSE /\ rpc' = IF Len(settled) + 1 = Len(possibleLocations)
                             THEN "select" ELSE "probe"
                 /\ UNCHANGED ret
  /\ UNCHANGED <<repoData, docsBranch, content, fileUsed, docsPath, trace,
                 message, tasks, logged, contentCache, pathCache, warm>>
  /\ UNCHANGED <<vars, bvars, reqs>>

\* the await of Promise.all resumes: the loop over possibleLocations
Select ==
  /\ rpc = "select"
  /\ LET mainResult == StaticSelect(settled, docsBranch)
     IN  IF mainResult.found
           THEN /\ content' = mainResult.content
                /\ fileUsed' = mainResult.fileUsed
                /\ docsPath' = mainResult.docsPath
           ELSE UNCHANGED <<content, fileUsed, docsPath>>
  /\ rpc' = "selected"
  /\ UNCHANGED <<repoData, docsBranch, settled, trace, ret, message, tasks,
                 logged, contentCache, pathCache, warm>>
  /\ UNCHANGED <<vars, bvars, reqs>>

\* the static-path probe as one step: the three fetches settle in some order,
\* the loop selects, and after if (!content) either
\* searchGitLabRepo(..., "llms.txt", ...) is called or the cascade is over
Probe ==
  /\ rpc = "probe"
  /\ \E o \in ProbeOutcomesOn[docsBranch] :
       IF o.rejected
         THEN /\ rpc' = "threw"
              /\ ret' = Threw
              /\ UNCHANGED <<content, fileUsed, docsPath, trace, message,
                             tasks, logged>>
       ELSE LET c == IF o.found THEN o.content ELSE content
                f == IF o.found THEN o.fileUsed ELSE fileUsed
                p == IF o.found THEN o.docsPath ELSE docsPath
            IN  IF TriesSearch(c)
                  THEN /\ rpc' = "search"
                       /\ trace' = Append(trace, "search")
                       /\ content' = c
                       /\ fileUsed' = f
                       /\ docsPath' = p
                       /\ UNCHANGED <<ret, message, tasks, logged>>
                  ELSE /\ Dispatch(TRUE, c, f, p, tasks, logged)
                       /\ UNCHANGED <<ret, trace>>
  /\ UNCHANGED <<repoData, docsBranch, settled, contentCache, pathCache,
                 warm>>
  /\ UNCHANGED <<vars, bvars, reqs>>

\* searchGitLabRepo(..., "llms.txt", ...) settles
Search ==
  /\ rpc = "search"
  /\ \E found \in SearchOutcomes(pathCache, LLMS_TXT, docsBranch) :
       IF found.found
         THEN /\ Dispatch(TRUE, found.content, "llms.txt",
                          PlainPath(found.path),
                          tasks \cup {PathWrite(found.write)}, logged)
              /\ UNCHANGED trace
         ELSE \* await fetchFileFromR2(...)
              /\ rpc' = "blob"
              /\ trace' = Append(trace, "blob")
              /\ UNCHANGED <<content, fileUsed, docsPath, message, tasks,
                             logged>>
  /\ UNCHANGED <<repoData, docsBranch, settled, ret, contentCache, pathCache,
                 warm>>
  /\ UNCHANGED <<vars, bvars, reqs>>

\* fetchFileFromR2(namespace, project, "llms.txt", env) settles.  docsBranch
\* is the result of getRepoBranch and is not empty here, so the branch is
\* not resolved again
Blob ==
  /\ rpc = "blob"
  /\ \E blob \in BlobOutcomes :
       IF ~Falsy(blob)
         THEN /\ Dispatch(TRUE, blob, "llms.txt (generated)", docsPath, tasks,
                          logged)
              /\ UNCHANGED trace
         ELSE \* await searchGitLabRepo(..., "README+path:/", ...)
              /\ content' = blob
              /\ rpc' = "readme"
              /\ trace' = Append(trace, "readme")
              /\ UNCHANGED <<fileUsed, docsPath, message, tasks, logged>>
  /\ UNCHANGED <<repoData, docsBranch, settled, ret, contentCache, pathCache,
                 warm>>
  /\ UNCHANGED <<vars, bvars, reqs>>

\* searchGitLabRepo(..., "README+path:/", ...) settles
Readme ==
  /\ rpc = "readme"
  /\ \E readmeResult \in SearchOutcomes(pathCache, README_QUERY, docsBranch) :
       IF readmeResult.found
         THEN Dispatch(TRUE, readmeResult.content, Basename(readmeResult.path),
                       constructGitlabUrl(docsBranch, readmeResult.path),
                       tasks \cup {PathWrite(readmeResult.write)}, logged)
         ELSE Dispatch(TRUE, content, fileUsed, docsPath, tasks, logged)
  /\ UNCHANGED <<repoData, docsBranch, settled, trace, ret, contentCache,
                 pathCache, warm>>
  /\ UNCHANGED <<vars, bvars, reqs>>

\* variant: the sentinel result is cached like any other
CachesResultAlways(c) == TRUE

\* the content-cache write is reached: the sentinel returns before it
CachesResult(c) == ~Falsy(c)

\* the fileUsed of the result
ResultLabel(c, f) == f

\* the rest of fetchDocumentation: the sentinel or the result is built, the
\* content-cache write of a result is handed to ctx.waitUntil, return
ReturnResult ==
  /\ rpc = "dispatched"
  /\ ret' = [fileUsed |-> ResultLabel(content, fileUsed),
             content |-> IF Falsy(content) THEN SENTINEL ELSE content]
  /\ tasks' = tasks \cup
              (IF CachesResult(content) /\ repoData.hasRepo
                 THEN {ContentWrite(ret')} ELSE {})
  /\ rpc' = "returned"
  /\ warm' = (warm \/ (repoData.hasRepo /\ ~Falsy(content)))
  /\ docsBranch' = ""
  /\ content' = NullContent
  /\ fileUsed' = "unknown"
  /\ docsPath' = NoPath
  /\ message' = NoMessage
  /\ UNCHANGED <<repoData, settled, trace, logged, contentCache, pathCache>>
  /\ UNCHANGED <<vars, bvars, reqs>>

\* variant: a failing content-cache write is not caught
CaughtEnqueueOnly(kind) == kind = "enqueue"

\* the error of a failing piece of detached work is caught: the try/catch of
\* the enqueuer, the .catch on the content-cache write, the cache's own
\* handling of a failing path write
Caught(kind) == kind \in {"enqueue", "cacheFetchDocResult", "cacheFilePath"}

\* a piece of detached work settles: the send or the cache write succeeds
\* or fails
Settle ==
  /\ rpc # "dispatched"
  /\ \E t \in tasks, ok \in BOOLEAN :
       /\ tasks' = tasks \ {t}
       /\ contentCache' = IF ok /\ t.kind = "cacheFetchDocResult"
                            THEN t.result ELSE contentCache
       /\ pathCache' = IF ok /\ t.kind = "cacheFilePath"
                         THEN t.entry ELSE pathCache
       /\ logged' = IF ok THEN logged
                    ELSE IF Caught(t.kind) THEN logged \cup {t.kind}
                    ELSE logged \cup {"unhandled rejection"}
  /\ UNCHANGED <<rpc, repoData, docsBranch, content, fileUsed, docsPath,
                 settled, trace, ret, message, warm>>
  /\ UNCHANGED <<vars, bvars, reqs>>

\* the TTL of the content cache runs out: lookups find nothing
Expire ==
  /\ rpc # "dispatched"
  /\ warm \/ contentCache # NoEntry
  /\ contentCache' = NoEntry
  /\ warm' = FALSE
  /\ UNCHANGED <<rpc, repoData, docsBranch, content, fileUsed, docsPath,
                 settled, trace, ret, message, tasks, logged, pathCache>>
  /\ UNCHANGED <<vars, bvars, reqs>>

\* the TTL of the path-cache entry runs out
ExpirePath ==
  /\ rpc # "dispatched"
  /\ pathCache # NoPathEntry
  /\ pathCache' = NoPathEntry
  /\ UNCHANGED <<rpc, repoData, docsBranch, content, fileUsed, docsPath,
                 settled, trace, ret, message, tasks, logged, contentCache,
                 warm>>
  /\ UNCHANGED <<vars, bvars, reqs>>

NextResolve ==
  \/ \E rd \in RepoDatas : Start(rd)
  \/ CacheCheck
  \/ Branch
  \/ Probe
  \/ Search
  \/ Blob
  \/ Readme
  \/ ReturnResult
  \/ Settle
  \/ Expire
  \/ ExpirePath

\* the resolutions of a deployment with a token configured
InitResolve == Init /\ tokenSet

SpecResolve == InitResolve /\ [][NextResolve]_allvars

\* the code of a resolution that runs when the promise it awaits settles
Advance ==
  \/ CacheCheck
  \/ Branch
  \/ Probe
  \/ Search
  \/ Blob
  \/ Readme
  \/ ReturnResult

\* the resolutions when every awaited promise settles in the end: a client
\* request is over after at most MAX_RETRIES + 1 attempts and timers fire
SpecResolveFair == SpecResolve /\ WF_allvars(Advance)

\* The subdomain flow of fetchDocumentation: the GitLab Pages site of
\* {namespace}.gitlab.io, with the project as its path if there is one

RESTRICTION ==
  [kind |-> "text",
   text |-> <<"Access to this GitLab Pages site is restricted by robots.txt.">>]
ROBOTS_LABEL == "robots.txt restriction"
LANDING_LABEL == "landing page (index.html, converted to Markdown)"
LANDING_MD == [kind |-> "text", text |-> <<"landing page as Markdown">>]
EmptyText == [kind |-> "text", text |-> <<>>]

\* repoData of a subdomain request, with and without a path
PagesRepoDatas ==
  {[urlType |-> "subdomain", hasRepo |-> TRUE],
   [urlType |-> "subdomain", hasRepo |-> FALSE]}

\* what fetchFileWithRobotsTxtCheck(url, env) resolves with
RobotsResults(url) ==
  {[blockedByRobots |-> TRUE, content |-> NullContent],
   [blockedByRobots |-> FALSE, content |-> NullContent],
   [blockedByRobots |-> FALSE, content |-> EmptyText],
   [blockedByRobots |-> FALSE, content |-> FileContent(<<url>>)]}

\* what htmlToMd(html) does: Markdown, possibly empty, or an exception
MdOutcomes == {LANDING_MD, EmptyText, NullContent}

\* variant: a block labels the result and leaves the content
RestrictLabelOnly(blockedByRobots, c, f) ==
  IF blockedByRobots THEN [content |-> RESTRICTION, fileUsed |-> f]
  ELSE [content |-> c, fileUsed |-> f]

\* if (blockedByRobots) { content = ...; fileUsed = ... }
Restrict(blockedByRobots, c, f) ==
  IF blockedByRobots THEN [content |-> RESTRICTION, fileUsed |-> ROBOTS_LABEL]
  ELSE [content |-> c, fileUsed |-> f]

\* the subdomain branch is over, blocked or not
PagesDispatch(blockedByRobots, c, f) ==
  LET r == Restrict(blockedByRobots, c, f)
  IN  /\ Dispatch(repoData.hasRepo, r.content, r.fileUsed, NoPath, tasks,
                  logged)
      /\ trace' = IF blockedByRobots THEN Append(trace, "blocked") ELSE trace

\* fetchDocumentation({repoData, env, ctx}) is called for a subdomain
StartPages(rd) ==
  /\ rpc \in {"idle", "returned", "threw"}
  /\ EnqueueTask \notin tasks
  /\ Cardinality(tasks) <= MaxPending
  /\ repoData' = rd
  /\ settled' = <<>>
  /\ ret' = NoRet
  /\ logged' = {}
  /\ IF rd.hasRepo
       THEN \* await getCachedFetchDocResult(namespace, project, env)
            rpc' = "check" /\ trace' = <<>>
       ELSE \* await fetchFileWithRobotsTxtCheck(baseURL + "llms.txt")
            rpc' = "llms" /\ trace' = <<"llms.txt">>
  /\ UNCHANGED <<content, fileUsed, docsPath, message, tasks, docsBranch,
                 contentCache, pathCache, warm>>
  /\ UNCHANGED <<vars, bvars, reqs>>

\* the fetch of llms.txt settles
PagesLlms ==
  /\ rpc = "llms"
  /\ \E llmsResult \in RobotsResults("llms.txt") :
       IF llmsResult.blockedByRobots
         THEN PagesDispatch(TRUE, content, fileUsed)
       ELSE IF ~Falsy(llmsResult.content)
         THEN PagesDispatch(FALSE, llmsResult.content, "llms.txt")
       ELSE \* await fetchFileWithRobotsTxtCheck(baseURL, env)
            /\ rpc' = "index"
            /\ trace' = Append(trace, "landing page")
            /\ UNCHANGED <<content, fileUsed, docsPath, message, tasks,
                           logged>>
  /\ UNCHANGED <<repoData, docsBranch, settled, ret, contentCache, pathCache,
                 warm>>
  /\ UNCHANGED <<vars, bvars, reqs>>

\* the fetch of the landing page settles
PagesIndex ==
  /\ rpc = "index"
  /\ \E indexResult \in RobotsResults("landing page"), md \in MdOutcomes :
       LET converts == ~indexResult.blockedByRobots
                         /\ ~Falsy(indexResult.content) /\ md # NullContent
           c == IF converts THEN md ELSE content
           f == IF converts THEN LANDING_LABEL ELSE fileUsed
       IN  IF indexResult.blockedByRobots
             THEN PagesDispatch(TRUE, c, f)
           ELSE IF ~Falsy(c)
             THEN PagesDispatch(FALSE, c, f)
           ELSE \* await fetchFileWithRobotsTxtCheck(baseURL + "README.md")
                /\ rpc' = "readme"
                /\ trace' = Append(trace, "README.md")
                /\ content' = c
                /\ fileUsed' = f
                /\ UNCHANGED <<docsPath, message, tasks, logged>>
  /\ UNCHANGED <<repoData, docsBranch, settled, ret, contentCache, pathCache,
                 warm>>
  /\ UNCHANGED <<vars, bvars, reqs>>

\* the fetch of README.md settles
PagesReadme ==
  /\ rpc = "readme"
  /\ \E readmeResult \in RobotsResults("README.md") :
       IF readmeResult.blockedByRobots
         THEN PagesDispatch(TRUE, content, fileUsed)
       ELSE IF ~Falsy(readmeResult.content)
         THEN PagesDispatch(FALSE, readmeResult.content, "README.md")
       ELSE PagesDispatch(FALSE, content, fileUsed)
  /\ UNCHANGED <<repoData, docsBranch, settled, ret, contentCache, pathCache,
                 warm>>
  /\ UNCHANGED <<vars, bvars, reqs>>

NextPages ==
  \/ \E rd \in PagesRepoDatas : StartPages(rd)
  \/ CacheCheck
  \/ PagesLlms
  \/ PagesIndex
  \/ PagesReadme
  \/ ReturnResult
  \/ Settle
  \/ Expire

SpecPages == InitResolve /\ [][NextPages]_allvars

\* a resolution up to the end of the static-path probe, its fetches settling
\* one at a time
NextProbe ==
  \/ \E rd \in RepoDatas : Start(rd)
  \/ CacheCheck
  \/ Branch
  \/ ProbeSettles
  \/ Select
  \/ ReturnResult

SpecProbe == InitResolve /\ [][NextProbe]_allvars

-----------------------------------------------------------------------------
(* getRepoBranch on its own *)

\* getRepoBranch(namespace, project, env) is called; what its requests will
\* be answered is fixed
CallBranch ==
  /\ asked = NoAsk \/ resolved # NoBranch
  /\ asked' \in BranchInputs
  /\ resolved' = NoBranch
  /\ UNCHANGED <<rpc, repoData, docsBranch, content, fileUsed, docsPath,
                 settled, trace, ret, message, tasks, logged, contentCache,
                 pathCache, warm, call, returned, reqs>>
  /\ UNCHANGED vars

\* the call returns
BranchReturns ==
  /\ asked # NoAsk
  /\ resolved = NoBranch
  /\ resolved' = getRepoBranch(asked.meta, asked.data, asked.main,
                               asked.master)
  /\ UNCHANGED <<asked, rpc, repoData, docsBranch, content, fileUsed,
                 docsPath, settled, trace, ret, message, tasks, logged,
                 contentCache, pathCache, warm, call, returned, reqs>>
  /\ UNCHANGED vars

NextBranch ==
  \/ CallBranch
  \/ BranchReturns

SpecBranch == Init /\ [][NextBranch]_allvars

-----------------------------------------------------------------------------
(* Other functions on their own: a behaviour is one call of one of them,    *)
(* with arguments drawn from a bounded set, and its result                  *)

\* what getCachedFilePath(namespace, project, env) may yield: nothing, or
\* the path an earlier search for llms.txt discovered
CachedFiles ==
  {NoPathEntry,
   [path |-> NESTED_LLMS.path, branch |-> "main", filename |-> LLMS_TXT]}

\* searchGitLabRepo(namespace, project, filename, branch, env, ctx)
SearchRepo ==
  /\ call = NoCall
  /\ \E cachedFile \in CachedFiles, in \in SearchInputs,
        filename \in {LLMS_TXT, README_QUERY}, branch \in {"main", "master"} :
       /\ call' = [fn |-> "searchGitLabRepo", cachedFile |-> cachedFile,
                   in |-> in, filename |-> filename, branch |-> branch]
       /\ returned' = searchGitLabRepo(cachedFile, in, filename, branch)
  /\ UNCHANGED <<asked, resolved, rpc, repoData, docsBranch, content,
                 fileUsed, docsPath, settled, trace, ret, message, tasks,
                 logged, contentCache, pathCache, warm, reqs>>
  /\ UNCHANGED vars

\* getRepoData: a string with slashes is the sequence of its segments, ""
\* the empty sequence; a host is the sequence of its "."-separated labels

HOST_GITMCP == <<"gitmcp", "io">>
HOST_TEMP_URL == <<"remote-mcp-server-cf", "idosalomon", "workers", "dev">>
HOST_WORKERS == <<"git-mcp", "idosalomon", "workers", "dev">>
HOST_ESEMPLA == <<"git", "esempla", "systems">>
HOST_LOCAL == <<"localhost:8787">>

\* requestHost.includes("localhost")
IncludesLocalhost(requestHost) ==
  \E i \in DOMAIN requestHost : requestHost[i] \in {"localhost", "localhost:8787"}

\* requestHost.includes(".gitmcp.io")
IncludesGitmcp(requestHost) ==
  \E i \in 1..(Len(requestHost) - 2) :
    requestHost[i + 1] = "gitmcp" /\ requestHost[i + 2] = "io"

\* fullUrl.pathname, split at "/": of no requestUrl, of one that starts with
\* "/", of one that starts with "http", and of any other, whose text up to
\* the first "/" becomes the authority of the URL
Pathname(requestUrl) ==
  IF requestUrl.form = "none" THEN <<>>
  ELSE IF requestUrl.form = "bare" THEN Tail(requestUrl.raw)
  ELSE requestUrl.raw

\* .filter(Boolean) on strings
FilterBoolean(segments) == SelectSeq(segments, LAMBDA x : x # "")

\* segments.join("/") and path.split("/"): "".split("/") is [""]
JoinSlash(segments) == IF segments = <<"">> THEN <<>> ELSE segments
SplitSlash(path) == IF path = <<>> THEN <<"">> ELSE path

\* throw new Error("Invalid repository data: ...")
InvalidRepoData(requestHost) ==
  [namespace |-> Absent, project |-> Absent, host |-> requestHost,
   urlType |-> "threw"]

\* variant of getRepoData: the first segment is the namespace, the rest
\* the project
getRepoDataOwnerFirst(requestHost, requestUrl) ==
  LET path == JoinSlash(FilterBoolean(Pathname(requestUrl)))
  IN  IF IncludesGitmcp(requestHost) \/ Len(path) < 2
        THEN InvalidRepoData(requestHost)
      ELSE [namespace |-> Str(<<Head(path)>>), project |-> Str(Tail(path)),
            host |-> requestHost, urlType |-> "gitlab"]

\* getRepoData({requestHost, requestUrl})
getRepoData(requestHost, requestUrl) ==
  LET path == JoinSlash(FilterBoolean(Pathname(requestUrl)))
  IN  IF IncludesGitmcp(requestHost)
        THEN LET subdomain == JoinSlash(<<requestHost[1]>>)
             IN  IF subdomain = <<>> /\ path = <<>>
                   THEN InvalidRepoData(requestHost)
                 ELSE [namespace |-> Str(subdomain),
                       project |-> IF path = <<>> THEN Absent ELSE Str(path),
                       host |-> requestHost, urlType |-> "subdomain"]
      ELSE IF \/ requestHost \in {HOST_GITMCP, HOST_TEMP_URL, HOST_WORKERS,
                                  HOST_ESEMPLA}
              \/ IncludesLocalhost(requestHost)
        THEN LET splitPath == SplitSlash(path)
             IN  IF Len(splitPath) < 2
                   THEN LET namespace == JoinSlash(<<splitPath[1]>>)
                        IN  IF namespace = <<>>
                              THEN InvalidRepoData(requestHost)
                            ELSE [namespace |-> Str(namespace),
                                  project |-> Absent,
                                  host |-> requestHost, urlType |-> "gitlab"]
                 ELSE LET project == <<splitPath[Len(splitPath)]>>
                          namespace ==
                            JoinSlash(SubSeq(splitPath, 1, Len(splitPath) - 1))
                      IN  IF namespace = <<>> /\ project = <<"">>
                            THEN InvalidRepoData(requestHost)
                          ELSE [namespace |-> Str(namespace),
                                project |-> Str(project),
                                host |-> requestHost, urlType |-> "gitlab"]
      ELSE [namespace |-> Absent, project |-> Absent, host |-> requestHost,
            urlType |-> "unknown"]

\* segments between the slashes of a request path, the empty one included
MaxSegments == 4
Segments == {"", "company", "team", "subteam", "project"}

RawPaths == UNION {[1..n -> Segments] : n \in 0..MaxSegments}

RequestHosts ==
  {HOST_GITMCP, HOST_TEMP_URL, HOST_WORKERS, HOST_ESEMPLA, HOST_LOCAL,
   <<"acme", "gitmcp", "io">>, <<"example", "com">>}

\* requestUrl: absent, a path ("/..."), a whole URL ("https://host/..."), or
\* a text that starts with neither "/" nor "http"
RequestUrls ==
  {[form |-> "none", raw |-> <<>>]}
    \cup [form : {"path", "http"}, raw : RawPaths]
    \cup {u \in [form : {"bare"}, raw : RawPaths] :
            u.raw # <<>> /\ u.raw[1] # ""}

\* getRepoData(requestData)
RepoData ==
  /\ call = NoCall
  /\ \E requestHost \in RequestHosts, requestUrl \in RequestUrls :
       /\ call' = [fn |-> "getRepoData", requestHost |-> requestHost,
                   requestUrl |-> requestUrl]
       /\ returned' = getRepoData(requestHost, requestUrl)
  /\ UNCHANGED <<asked, resolved, rpc, repoData, docsBranch, content,
                 fileUsed, docsPath, settled, trace, ret, message, tasks,
                 logged, contentCache, pathCache, warm, reqs>>
  /\ UNCHANGED vars

\* the mapping tool: a name is the sequence of its characters

LOWER ==
  <<"a", "b", "c", "d", "e", "f", "g", "h", "i", "j", "k", "l", "m", "n",
    "o", "p", "q", "r", "s", "t", "u", "v", "w", "x", "y", "z">>
UPPER ==
  <<"A", "B", "C", "D", "E", "F", "G", "H", "I", "J", "K", "L", "M", "N",
    "O", "P", "Q", "R", "S", "T", "U", "V", "W", "X", "Y", "Z">>

\* text.toLowerCase()
toLowerCase(text) ==
  [i \in DOMAIN text |->
     IF \E k \in DOMAIN UPPER : UPPER[k] = text[i]
       THEN LOWER[CHOOSE k \in DOMAIN UPPER : UPPER[k] = text[i]]
       ELSE text[i]]

\* static-mapping.json, as far as the tests show it: key, title, owner, repo
mapping ==
  <<[key |-> <<"E", "l", "e", "v", "e", "n", "L", "a", "b", "s">>,
      title |-> "ElevenLabs", owner |-> "elevenlabs",
     repo |-> <<"e", "l", "e", "v", "e", "n", "l", "a", "b", "s", "-", "d",
         "o", "c", "s">>],
    [key |-> <<"r", "e", "a", "c", "t", "-", "r", "o", "u", "t", "e", "r">>,
        title |-> "React Router", owner |-> "remix-run",
     repo |-> <<"r", "e", "a", "c", "t", "-", "r", "o", "u", "t", "e", "r">>],
    [key |-> <<"n", "e", "x", "t", "-", "a", "u", "t", "h">>,
        title |-> "NextAuth.js", owner |-> "nextauthjs",
     repo |-> <<"n", "e", "x", "t", "-", "a", "u", "t", "h">>],
    [key |-> <<"G", "i", "t", "M", "C", "P">>, title |-> "GitMCP",
        owner |-> "idosal",
     repo |-> <<"g", "i", "t", "-", "m", "c", "p">>]>>

badgeCountAllowedRepos == {<<"m", "c", "p", "-", "u", "i">>, <<"g", "i", "t",
    "-", "m", "c", "p">>}

\* names every object inherits from Object.prototype, among others
OBJECT_PROTOTYPE == {<<"c", "o", "n", "s", "t", "r", "u", "c", "t", "o",
    "r">>, <<"t", "o", "S", "t", "r", "i", "n", "g">>, <<"_", "_", "p", "r",
        "o", "t", "o", "_", "_">>}

Undefined == [kind |-> "undefined"]
Inherited == [kind |-> "inherited"]

\* object[name], for the object Object.fromEntries builds from the entries
\* under their keys: the last entry of that key, else what the prototype
\* holds under the name, else undefined
Property(entries, keys, name) ==
  LET own == {i \in DOMAIN entries : keys[i] = name}
  IN  IF own # {}
        THEN [kind |-> "entry",
              value |-> entries[CHOOSE i \in own : \A j \in own : j <= i]]
      ELSE IF name \in OBJECT_PROTOTYPE THEN Inherited
      ELSE Undefined

\* mappingCaseInsensitive[name]
nameMapping(name) ==
  Property(mapping, [i \in DOMAIN mapping |-> toLowerCase(mapping[i].key)],
           name)

\* mappingByRepoCaseInsensitive[name]
repoMapping(name) ==
  Property(mapping, [i \in DOMAIN mapping |-> toLowerCase(mapping[i].repo)],
           name)

\* the callback of match_common_libs_owner_repo_mapping: the text it
\* returns, the fields of the JSON text (undefined ones are left out by
\* JSON.stringify), and whether a view is counted
matchCommonLibs(library) ==
  IF library = <<>>
    THEN [text |-> "No library name provided"]
  ELSE
    LET byName == nameMapping(toLowerCase(library))
        project == IF byName # Undefined THEN byName
                   ELSE repoMapping(toLowerCase(library))
    IN  IF project = Undefined
          THEN [text |-> "No namespace/project found for",
              library |-> library]
        ELSE IF project = Inherited
          THEN [text |-> "JSON", library |-> library, libraryTitle |-> Absent,
                namespace |-> Absent, project |-> Absent, counted |-> FALSE]
        ELSE [text |-> "JSON", library |-> library,
              libraryTitle |-> Str(project.value.title),
              namespace |-> Str(project.value.owner),
              project |-> Str(project.value.repo),
              counted |-> project.value.repo \in badgeCountAllowedRepos]

\* library names a caller may pass
Libraries ==
  {<<>>, <<"E", "l", "e", "v", "e", "n", "L", "a", "b", "s">>, <<"e", "l",
      "e", "v", "e", "n", "l", "a", "b", "s", "-", "d", "o", "c", "s">>,
          <<"r", "e", "a", "c", "t", "-", "r", "o", "u", "t", "e", "r">>,
              <<"N", "e", "x", "t", "-", "A", "u", "t", "h">>, <<"U", "n",
                  "k", "n", "o", "w", "n", "L", "i", "b", "r", "a", "r",
                      "y">>, <<"g", "i", "t", "-", "m", "c", "p">>,
   <<"c", "o", "n", "s", "t", "r", "u", "c", "t", "o", "r">>, <<"C", "o",
       "n", "s", "t", "r", "u", "c", "t", "o", "r">>, <<"t", "o", "S", "t",
           "r", "i", "n", "g">>}

\* match_common_libs_owner_repo_mapping({library})
MatchLibrary ==
  /\ call = NoCall
  /\ \E library \in Libraries :
       /\ call' = [fn |-> "match_common_libs_owner_repo_mapping",
                   library |-> library]
       /\ returned' = matchCommonLibs(library)
  /\ UNCHANGED <<asked, resolved, rpc, repoData, docsBranch, content,
                 fileUsed, docsPath, settled, trace, ret, message, tasks,
                 logged, contentCache, pathCache, warm, reqs>>
  /\ UNCHANGED vars

\* The code search tool: searchRepositoryCode over searchCode

RESULTS_PER_PAGE == 30
MAX_PER_PAGE == 100

\* the most matches a repository has for the query
MaxMatches == 61

\* the page numbers asked for
Pages == -1 .. 3

\* GitLab's answer to page p of the matches, per_page at a time: how many
\* blobs the array of the response holds
BlobsOnPage(matches, p, perPage) ==
  LET before == (p - 1) * perPage
  IN  IF p < 1 \/ matches <= before THEN 0
      ELSE IF matches - before < perPage THEN matches - before
      ELSE perPage

\* searchCode(query, namespace, project, env, page, perPage); items stands
\* for items.length
searchCode(ok, matches, page, perPage) ==
  LET validPerPage == MathMin(MathMax(Num(1), Num(perPage)),
                              Num(MAX_PER_PAGE)).v
      results == BlobsOnPage(matches, page, validPerPage)
  IN  IF ~ok THEN [isNull |-> TRUE, total_count |-> 0, items |-> 0]
      ELSE [isNull |-> FALSE, total_count |-> results, items |-> results]

NoPagination ==
  [totalCount |-> 0, currentPage |-> 0, perPage |-> 0, hasMorePages |-> FALSE]

\* searchRepositoryCode({repoData, query, page, env, ctx})
searchRepositoryCode(hasRepo, ok, matches, page) ==
  IF ~hasRepo THEN [kind |-> "no repository", pagination |-> NoPagination]
  ELSE LET currentPage == MathMax(Num(1), Num(page)).v
           resultsPerPage == RESULTS_PER_PAGE
           data == searchCode(ok, matches, currentPage, resultsPerPage)
       IN  IF data.isNull
             THEN [kind |-> "failed", pagination |-> NoPagination]
           ELSE IF data.total_count = 0 \/ data.items = 0
             THEN [kind |-> "no matches", pagination |-> NoPagination]
           ELSE [kind |-> "results",
                 pagination |->
                   [totalCount |-> data.total_count,
                    currentPage |-> currentPage,
                    perPage |-> resultsPerPage,
                    hasMorePages |->
                      currentPage * resultsPerPage < data.total_count]]

\* a call of searchRepositoryCode
SearchCode ==
  /\ call = NoCall
  /\ \E hasRepo \in BOOLEAN, ok \in BOOLEAN, matches \in 0 .. MaxMatches,
        page \in Pages :
       /\ call' = [fn |-> "searchRepositoryCode", hasRepo |-> hasRepo,
                   ok |-> ok, matches |-> matches, page |-> page]
       /\ returned' = searchRepositoryCode(hasRepo, ok, matches, page)
  /\ UNCHANGED <<asked, resolved, rpc, repoData, docsBranch, content,
                 fileUsed, docsPath, settled, trace, ret, message, tasks,
                 logged, contentCache, pathCache, warm, reqs>>
  /\ UNCHANGED vars

\* The tool names: enforceToolNameLengthLimit.  Strings are sequences of
\* characters.

LIMIT == 51

SEARCH_PREFIX == <<"s", "e", "a", "r", "c", "h", "_">>
FETCH_PREFIX == <<"f", "e", "t", "c", "h", "_">>
DOCUMENTATION_SUFFIX == <<"_", "d", "o", "c", "u", "m", "e", "n", "t", "a", "t", "i", "o", "n">>
CODE_SUFFIX == <<"_", "c", "o", "d", "e">>
DOCS_SUFFIX == <<"_", "d", "o", "c", "s">>
PROJECT_WORD == <<"p", "r", "o", "j", "e", "c", "t">>

\* the longest project name and the longest server name
MaxProjectLen == 3
MaxServerNameLen == 45

\* a prefix of LongPrefixLen letters
LongPrefixLen == 52
LONG_PREFIX == [k \in 1 .. LongPrefixLen |-> "p"]

\* a project name of one word that is longer than "project"
LONG_PROJECT == [k \in 1 .. 9 |-> "a"]

Prefixes == {SEARCH_PREFIX, FETCH_PREFIX, LONG_PREFIX}
Suffixes == {DOCUMENTATION_SUFFIX, CODE_SUFFIX}
ProjectNames ==
  UNION {[1 .. n -> {"a", "-", "_"}] : n \in 0 .. MaxProjectLen}
    \cup {LONG_PROJECT}

\* project.replace(/[^a-zA-Z0-9]/g, "_")
ReplaceNonAlphanumeric(project) ==
  [k \in DOMAIN project |-> IF project[k] = "a" THEN "a" ELSE "_"]

\* s.replace(/__/g, "_"): the pairs are matched from the left and do not
\* overlap
RECURSIVE ReplaceDoubleUnderscore(_)
ReplaceDoubleUnderscore(s) ==
  IF Len(s) < 2 THEN s
  ELSE IF s[1] = "_" /\ s[2] = "_"
    THEN <<"_">> \o ReplaceDoubleUnderscore(SubSeq(s, 3, Len(s)))
  ELSE <<s[1]>> \o ReplaceDoubleUnderscore(Tail(s))

\* s.split("_"): the words between the underscores, empty ones included
RECURSIVE SplitUnderscore(_)
SplitUnderscore(s) ==
  IF \A k \in DOMAIN s : s[k] # "_" THEN <<s>>
  ELSE LET k == CHOOSE k \in DOMAIN s :
                  s[k] = "_" /\ \A j \in 1 .. k - 1 : s[j] # "_"
       IN  <<SubSeq(s, 1, k - 1)>> \o SplitUnderscore(SubSeq(s, k + 1, Len(s)))

\* words.join("_")
RECURSIVE JoinUnderscore(_)
JoinUnderscore(words) ==
  IF words = <<>> THEN <<>>
  ELSE IF Len(words) = 1 THEN words[1]
  ELSE words[1] \o <<"_">> \o JoinUnderscore(Tail(words))

\* the loop that removes words from the end, i words being left
RECURSIVE RemoveWords(_, _, _, _, _)
RemoveWords(prefix, words, shorterSuffix, serverNameLen, i) ==
  IF i <= 0 THEN [fits |-> FALSE, toolName |-> <<>>]
  ELSE LET shortenedRepo == JoinUnderscore(SubSeq(words, 1, i))
           toolName == prefix \o shortenedRepo \o shorterSuffix
       IN  IF Len(toolName) + serverNameLen <= LIMIT
             THEN [fits |-> TRUE, toolName |-> toolName]
           ELSE RemoveWords(prefix, words, shorterSuffix, serverNameLen, i - 1)

\* enforceToolNameLengthLimit(prefix, project, suffix), serverNameLen being
\* generateServerName(project).length; hasProject is false for null and
\* undefined
enforceToolNameLengthLimit(prefix, hasProject, project, suffix, serverNameLen) ==
  IF ~hasProject \/ project = <<>> THEN prefix \o suffix
  ELSE LET repoName == ReplaceNonAlphanumeric(project)
           shorterSuffix == IF suffix = DOCUMENTATION_SUFFIX THEN DOCS_SUFFIX
                            ELSE suffix
           words == SplitUnderscore(repoName)
           removed == IF Len(words) > 1
                        THEN RemoveWords(prefix, words, shorterSuffix,
                                         serverNameLen, Len(words) - 1)
                      ELSE [fits |-> FALSE, toolName |-> <<>>]
           generic == prefix \o PROJECT_WORD \o shorterSuffix
       IN  IF Len(prefix \o repoName \o suffix) + serverNameLen <= LIMIT
             THEN prefix \o repoName \o suffix
           ELSE IF Len(prefix \o repoName \o shorterSuffix) + serverNameLen
                     <= LIMIT
             THEN prefix \o repoName \o shorterSuffix
           ELSE IF removed.fits THEN removed.toolName
           ELSE IF Len(generic) + serverNameLen <= LIMIT THEN generic
           ELSE ReplaceDoubleUnderscore(prefix \o shorterSuffix)

\* a call of enforceToolNameLengthLimit
ToolName ==
  /\ call = NoCall
  /\ \E prefix \in Prefixes, hasProject \in BOOLEAN, project \in ProjectNames,
        suffix \in Suffixes, serverNameLen \in 0 .. MaxServerNameLen :
       /\ ~hasProject => project = <<>>
       /\ call' = [fn |-> "enforceToolNameLengthLimit", prefix |-> prefix,
                   hasProject |-> hasProject, project |-> project,
                   suffix |-> suffix, serverNameLen |-> serverNameLen]
       /\ returned' = [toolName |->
                         enforceToolNameLengthLimit(prefix, hasProject, project,
                                                    suffix, serverNameLen)]
  /\ UNCHANGED <<asked, resolved, rpc, repoData, docsBranch, content,
                 fileUsed, docsPath, settled, trace, ret, message, tasks,
                 logged, contentCache, pathCache, warm, reqs>>
  /\ UNCHANGED vars

NextCalls ==
  \/ SearchRepo
  \/ RepoData
  \/ MatchLibrary
  \/ SearchCode
  \/ ToolName

SpecCalls == Init /\ [][NextCalls]_allvars


-----------------------------------------------------------------------------
(* Properties *)

Last(s) == s[Len(s)]
Attempts == Len(tokens)
AllThrottled == outcomes # <<>> /\ \A i \in 1..Len(outcomes) : outcomes[i] = 429
AllFailed == outcomes # <<>> /\ \A i \in 1..Len(outcomes) : outcomes[i] = 0

\* shouldThrottle(): remaining < 5 and resetTime is set and in the future
ShouldThrottle(rl, t) ==
  /\ IsNum(rl.remaining) /\ rl.remaining.v < 5
  /\ IsNum(rl.resetTime) /\ rl.resetTime.v > t

Min(a, b) == IF a <= b THEN a ELSE b
Max(a, b) == IF a >= b THEN a ELSE b

C2_NetworkFailureRetries ==
  AllFailed =>
    /\ (retryCount > 0 => retryWait = 2000)
    /\ retryCount = Len(outcomes) - (IF pc = "done" THEN 1 ELSE 0)
    /\ (Len(outcomes) <= 3 => pc \in {"respect", "issue", "inflight"})
    /\ (Len(outcomes) > 3 =>
          /\ pc = "done"
          /\ Attempts = 4
          /\ retryCount = 3
          /\ result = NullResult)

C2_Witness ==
  AllFailed /\ pc = "done" /\ result.kind = "null" /\ Attempts = 4 /\ retryWait = 2000

C4_OtherStatusNotRetried ==
  \A i \in 1..Len(outcomes) :
    outcomes[i] \notin {0, 429} =>
      /\ i = Len(outcomes)
      /\ Attempts = i
      /\ pc = "done"
      /\ result = ResponseResult(lastResp)
      /\ lastResp.status = outcomes[i]

C4_Witness ==
  /\ pc = "done" /\ Len(outcomes) = 2 /\ outcomes[1] = 429
  /\ Last(outcomes) \in {404, 500} /\ result.resp.status = Last(outcomes)

\* C5 (as claimed): on every attempt of a request, retries included, the
\* PRIVATE-TOKEN header is attached only when the caller's useAuth is true and
\* a token is configured, and the auth flag of a retry is that of the caller.
C5_TokenOnlyWhenCallerAuth ==
  /\ \A i \in 1..Len(tokens) : tokens[i] => (callUseAuth /\ tokenSet)
  /\ (pc \in {"respect", "issue", "inflight"} => useAuth = callUseAuth)

\* C6 (as claimed): every attempt is issued after one of the two suspensions
\* of the pacing step, and the suspension is the 1000 ms delay whenever the
\* throttle condition did not hold at the pre-request check.
C6_AlwaysSuspends ==
  [][(pc = "respect" /\ pc' = "issue") =>
       IF ShouldThrottle(apiRateLimit, Now)
         THEN pace'.kind = "throttle"
         ELSE pace' = [kind |-> "delay", ms |-> 1000]]_vars

\* C7: if remaining < 5 and resetTime is in the future at the pre-request
\* check, the request suspends min(timeUntilReset + 1000, 60000) ms before it
\* is issued: at least min(timeUntilReset, 60000) and at most 60000.
C7_ThrottleWait ==
  [][(pc = "respect" /\ pc' = "issue" /\ ShouldThrottle(apiRateLimit, Now)) =>
       LET timeUntilReset == apiRateLimit.resetTime.v - Now
       IN  /\ pace'.kind = "throttle"
           /\ pace'.ms = Min(timeUntilReset + 1000, 60000)
           /\ pace'.ms >= Min(timeUntilReset, 60000)
           /\ pace'.ms <= 60000
           /\ apiRateLimit'.resetTime = Num(apiRateLimit.resetTime.v - pace'.ms)]_vars

C7_Witness ==
  /\ pc = "issue" /\ pace.kind = "throttle" /\ pace.ms = 60000
  /\ apiRateLimit.resetTime = Num(Now + 30000)

\* the value a field takes from the text of its header
FieldFromHeaders(f, h) ==
  CASE f = "remaining" -> ParseInt(h.remaining.s)
    [] f = "resetTime" -> JsMul(ParseInt(h.reset.s), Num(1000))
    [] f = "limit" -> ParseInt(h.limit.s)
HeaderOfField(f, h) ==
  CASE f = "remaining" -> h.remaining [] f = "resetTime" -> h.reset [] f = "limit" -> h.limit
Fields == {"remaining", "resetTime", "limit"}

\* C8 (as claimed): an observation updates exactly the fields whose header is
\* present and leaves the others unchanged, and observing the same headers
\* again changes nothing.
C8_UpdatesPresentHeaders ==
  [][LET h == lastResp'.headers
     IN  /\ \A f \in Fields :
               apiRateLimit'[f] = IF HeaderOfField(f, h).has
                                    THEN FieldFromHeaders(f, h)
                                    ELSE apiRateLimit[f]
         /\ updateRateLimitFromHeaders(apiRateLimit', h) = apiRateLimit']_vars

\* C8 (amended): an observation updates exactly the fields whose header is
\* present with a non-empty value and leaves the others (header missing or
\* empty) unchanged, and observing the same headers again changes nothing.
C8_UpdatesNonEmptyHeaders ==
  [][LET h == lastResp'.headers
     IN  /\ \A f \in Fields :
               apiRateLimit'[f] = IF HeaderOfField(f, h).has /\ HeaderOfField(f, h).s # <<>>
                                    THEN FieldFromHeaders(f, h)
                                    ELSE apiRateLimit[f]
         /\ updateRateLimitFromHeaders(apiRateLimit', h) = apiRateLimit']_vars

C8_Witness ==
  /\ lastResp.headers.remaining = Str(<<"3">>)
  /\ lastResp.headers.reset = Absent
  /\ lastResp.headers.limit = Str(<<>>)
  /\ apiRateLimit = [remaining |-> Num(3), resetTime |-> Num(Now + 5000), limit |-> Num(60)]

\* C9 (as claimed): the wait before a retry after a 429 is
\* max(1000, resetTime - now + 1000) when a reset time is known and 60000
\* otherwise, with the reset time as updated by that response; it is never
\* below 1000 ms.
C9_RetryWaitAtLeast1000 ==
  (pc = "respect" /\ retryCount > 0 /\ Last(outcomes) = 429) =>
    /\ retryWait >= 1000
    /\ (apiRateLimit.resetTime = NULL => retryWait = 60000)
    /\ (IsNum(apiRateLimit.resetTime) =>
          retryWait = Max(1000, apiRateLimit.resetTime.v + retryWait - Now + 1000))

ThrottledWithReset5 ==
  /\ retryCount > 0
  /\ lastResp.status = 429
  /\ lastResp.id = Len(outcomes)
  /\ lastResp.headers.reset = ResetText(5)

-----------------------------------------------------------------------------
(* Properties of the document resolver *)

\* what the fetch of the i-th static path yielded
ContentAt(i) ==
  (CHOOSE e \in {settled[k] : k \in DOMAIN settled} : e.location = i).content

\* the static paths whose fetch yielded something other than null
Returned == {i \in DOMAIN possibleLocations : ContentAt(i).kind # "null"}

\* the static paths whose fetch yielded a text that is not empty
NonEmpty ==
  {i \in DOMAIN possibleLocations :
     ContentAt(i).kind = "text" /\ ContentAt(i).text # <<>>}

\* C11: after the static-path probe, the content, fileUsed and docsPath are
\* those of the first path of the list, in list order, whose fetch returned
\* something, whatever the order in which the three fetches completed; if
\* none returned anything, the three locals are untouched.
C11_SelectionByListOrder ==
  rpc = "selected" =>
    IF Returned = {}
      THEN content = NullContent /\ fileUsed = "unknown" /\ docsPath = NoPath
      ELSE /\ content = ContentAt(First(Returned))
           /\ fileUsed = "llms.txt"
           /\ docsPath = constructGitlabUrl(docsBranch,
                                            possibleLocations[First(Returned)])

\* the fetch of docs/llms.txt completed first and returned a text, the fetch
\* of llms.txt completed last and returned one too: llms.txt is selected
C11_Witness ==
  /\ rpc = "selected"
  /\ settled[1].location = 3
  /\ settled[3].location = 2
  /\ Returned = {2, 3}
  /\ NonEmpty = {2, 3}
  /\ content = FileContent(possibleLocations[2])
  /\ fileUsed = "llms.txt"
  /\ docsPath = constructGitlabUrl(docsBranch, possibleLocations[2])

\* C12 (as claimed): after the static-path probe the content is that of the
\* first path of the list whose fetched content is not empty, and docsPath
\* is its URL; a path whose file is empty neither wins nor keeps a later
\* path with content from winning.
C12_FirstNonEmptyWins ==
  rpc = "selected" /\ NonEmpty # {} =>
    /\ content = ContentAt(First(NonEmpty))
    /\ docsPath = constructGitlabUrl(docsBranch,
                                     possibleLocations[First(NonEmpty)])

\* the strategies of a resolution for a GitLab repository, in order
CASCADE == <<"getRepoBranch", "static", "search", "blob", "readme">>

IsPrefix(s, t) == Len(s) <= Len(t) /\ \A k \in DOMAIN s : s[k] = t[k]

\* the local content holds a text that is not empty
HasContent == content.kind = "text" /\ content.text # <<>>

\* C13: the strategies a resolution starts are an initial part of the order
\* branch, static paths, llms.txt search, blob store, README search, one at
\* a time; the search, the blob read and the README search are each started
\* only while no content has been found, and once content has been found no
\* further strategy is started.
C13_OrderedShortCircuit ==
  [][/\ IsPrefix(trace', CASCADE)
     /\ (trace' # trace /\ trace' # <<>> =>
           /\ trace' = Append(trace, CASCADE[Len(trace) + 1])
           /\ (Len(trace') > 2 => ~HasContent /\ ~HasContent'))
     /\ (HasContent => trace' = trace)]_allvars

\* the blob store satisfied the resolution: the README search is not started
C13_Witness ==
  /\ rpc = "dispatched"
  /\ content = GENERATED
  /\ fileUsed = "llms.txt (generated)"
  /\ trace = <<"getRepoBranch", "static", "search", "blob">>

\* C14 (as claimed): a resolution never throws; what it returns is found
\* content with the label of its source, or the sentinel text.
C14_NeverThrows ==
  /\ rpc # "threw"
  /\ ret # Threw
  /\ (rpc = "returned" =>
        /\ ret.content.kind = "text"
        /\ ret.content.text # <<>>
        /\ ret.fileUsed # "")

\* the content cache and the pending cache writes hold no sentinel result
NoSentinelCached ==
  /\ contentCache.content # SENTINEL
  /\ \A t \in tasks : t.result.content # SENTINEL

\* C15: a resolution whose cascade ends without content returns the sentinel
\* and hands no content-cache write to ctx.waitUntil; neither the content
\* cache nor a pending write to it ever holds the sentinel.
C15_SentinelNotCached ==
  [][/\ (rpc = "dispatched" /\ ~HasContent =>
           /\ ret'.content = SENTINEL
           /\ tasks' = tasks)
     /\ NoSentinelCached']_allvars

\* static paths, search, blob store and README search all missed: the
\* sentinel is returned, the pending work is the send to the queue at most
C15_Witness ==
  /\ rpc = "returned"
  /\ trace = CASCADE
  /\ ret.content = SENTINEL
  /\ tasks \subseteq {EnqueueTask}
  /\ contentCache = NoEntry

\* the step in which the content-cache lookup of a resolution settles
LookupSettles == rpc = "check" /\ rpc' # "check"

\* C16: when the content-cache lookup finds a live entry, the resolution
\* returns that entry unchanged in the same step: no strategy is started,
\* nothing is handed to the enqueuer or to ctx.waitUntil, and the caches are
\* left as they are.
C16_CacheHitReturnsEntry ==
  [][LookupSettles /\ contentCache # NoEntry =>
       /\ rpc' = "returned"
       /\ ret' = contentCache
       /\ trace' = <<>>
       /\ message' = NoMessage
       /\ tasks' = tasks
       /\ contentCache' = contentCache
       /\ pathCache' = pathCache]_allvars

\* a resolution was answered from the cache
C16_Witness ==
  /\ rpc = "returned"
  /\ repoData.hasRepo
  /\ trace = <<>>
  /\ contentCache # NoEntry
  /\ ret = contentCache
  /\ message = NoMessage

\* the content-cache writes among a set of detached work
ContentWrites(ts) == {t \in ts : t.kind = "cacheFetchDocResult"}

\* C17 (as claimed): a resolution whose cache lookup settles within the TTL
\* window of an earlier resolution for the repository is answered from the
\* cache and starts no strategy, whether or not the cache write of the
\* earlier resolution has completed.
C17_SecondServedFromCache ==
  [][LookupSettles /\ repoData.urlType = "gitlab" /\ warm =>
       /\ rpc' = "returned"
       /\ trace' = <<>>]_allvars

\* C17 (amended): the cache write a resolution schedules holds exactly the
\* result it returns; the cache entry only ever becomes the result of a
\* write that completed; and a later resolution whose lookup finds that
\* entry returns it as it is, starting no strategy.
C17_SecondServedOnceWritten ==
  [][/\ (ContentWrites(tasks') \ ContentWrites(tasks) # {} =>
           /\ rpc' = "returned"
           /\ \A t \in ContentWrites(tasks') \ ContentWrites(tasks) :
                t.result = ret')
     /\ (contentCache' # contentCache /\ contentCache' # NoEntry =>
           \E t \in ContentWrites(tasks \ tasks') : t.result = contentCache')
     /\ (LookupSettles /\ contentCache # NoEntry =>
           /\ rpc' = "returned"
           /\ ret' = contentCache
           /\ trace' = <<>>)]_allvars

\* the second resolution is answered with the generated llms.txt the first
\* one found and cached; no work of the first is pending any more
C17_Witness ==
  /\ rpc = "returned"
  /\ warm
  /\ trace = <<>>
  /\ tasks = {}
  /\ ret = contentCache
  /\ ret = [fileUsed |-> "llms.txt (generated)", content |-> GENERATED]

\* the step in which fetchDocumentation returns the result of a cascade
Returns == rpc = "dispatched" /\ rpc' = "returned"

\* C18: when fetchDocumentation returns the result of a cascade, the send to
\* the queue (if a message was handed to it) and the content-cache write
\* (if content was found) are pending detached work: the return does not
\* wait for them; and when they settle later, well or badly, the returned
\* result stays as it is.
C18_ReturnsBeforeDetachedWork ==
  [][/\ (rpc = "dispatched" => Returns /\ ret' # NoRet /\ ret' # Threw)
     /\ (Returns /\ message # NoMessage => EnqueueTask \in tasks')
     /\ (Returns /\ HasContent /\ repoData.hasRepo =>
           \E t \in ContentWrites(tasks') : t.result = ret')
     /\ (rpc = "returned" /\ rpc' = "returned" => ret' = ret)]_allvars

\* the result is returned while the send and the cache write are pending
C18_Witness ==
  /\ rpc = "returned"
  /\ ret.content # SENTINEL
  /\ trace # <<>>
  /\ EnqueueTask \in tasks
  /\ \E t \in ContentWrites(tasks) : t.result = ret

\* C19: detached work never fails the resolution: no rejection of the send,
\* of the content-cache write or of a path-cache write is left unhandled,
\* each failure is logged; with the queue unbound nothing is sent and that
\* is logged; the returned result is built from the content and the label
\* alone, and no settling of detached work changes it.
C19_DetachedFailuresCaught ==
  [][/\ "unhandled rejection" \notin logged'
     /\ (tasks' # tasks /\ tasks' \subseteq tasks =>
           /\ ret' = ret
           /\ rpc' = rpc
           /\ \/ logged' = logged
              \/ \E t \in tasks \ tasks' : logged' = logged \cup {t.kind})
     /\ ("queue unavailable" \in logged' =>
           message' = NoMessage /\ EnqueueTask \notin tasks')
     /\ (Returns =>
           ret' = [fileUsed |-> fileUsed,
                   content |-> IF HasContent THEN content ELSE SENTINEL])]_allvars

\* the send and the cache write of a returned result have both failed and
\* were logged; the result stands
C19_Witness ==
  /\ rpc = "returned"
  /\ ret.content # SENTINEL
  /\ {"enqueue", "cacheFetchDocResult"} \subseteq logged
  /\ tasks = {}
  /\ contentCache = NoEntry

\* C20 (as claimed): getRepoBranch returns the default_branch of a successful
\* metadata response; otherwise "main" if the probe of main succeeds;
\* otherwise "master" if the probe of master succeeds; otherwise "main".
\* The probe of master follows a failed probe of main, and the branch
\* returned is never empty.
C20_BranchOrder ==
  resolved # NoBranch =>
    /\ resolved.branch # ""
    /\ resolved.branch =
         IF /\ Succeeded(asked.meta)
            /\ asked.data.readable
            /\ asked.data.default_branch # ""
           THEN asked.data.default_branch
         ELSE IF Succeeded(asked.main) THEN "main"
         ELSE IF Succeeded(asked.master) THEN "master"
         ELSE "main"
    /\ (\E k \in DOMAIN resolved.requests : resolved.requests[k] = "master") =>
         /\ ~Succeeded(asked.main)
         /\ \E k \in DOMAIN resolved.requests : resolved.requests[k] = "main"

\* C21 (as claimed): the path cache is read per logical filename, so what a
\* search reports is a file of the name it searched for: content reported
\* by the llms.txt search was read from a file named llms.txt, and content
\* reported by the README search from a file named README.md.
C21_PathCacheKeyedByFilename ==
  rpc = "dispatched" /\ HasContent /\ content # GENERATED =>
    /\ (Len(trace) < Len(CASCADE) => Basename(content.text) = "llms.txt")
    /\ (Len(trace) = Len(CASCADE) => Basename(content.text) = "README.md")

\* the call in call is a search through the platform's search API: a call of
\* searchGitLabRepo that finds no cached path
Searches == call.fn = "searchGitLabRepo" /\ call.cachedFile.path = <<>>

\* the search request of the call is answered ok with a readable list
Listed == Succeeded(call.in.response) /\ call.in.readable

\* the content fetch of the call yields a text that is not empty
Fetched == Succeeded(call.in.fetchResponse) /\ call.in.fetchBody = "text"

\* C22 (as claimed): a README search (no cached path) whose answer lists the
\* root-level README.md and whose content fetch yields text finds that file:
\* its path is returned with its content, so that fileUsed is README.md.
C22_ReadmeSearchFindsRootReadme ==
  /\ Searches
  /\ call.filename = README_QUERY
  /\ Listed
  /\ \E k \in DOMAIN call.in.results : call.in.results[k] = ROOT_README
  /\ Fetched
  => /\ returned.found
     /\ returned.path = ROOT_README.path
     /\ returned.content = FileContent(ROOT_README.path)
     /\ Basename(returned.path) = "README.md"

\* the paths, in order, of the listed items whose file name is the one
\* searched for
ExactPaths ==
  LET named(item) == IF item.filename # <<>> THEN item.filename
                     ELSE <<item.path[Len(item.path)]>>
      exact == SelectSeq(call.in.results,
                         LAMBDA item : named(item) = call.filename)
  IN  [k \in DOMAIN exact |-> exact[k].path]

\* C23: a call of searchGitLabRepo returns content exactly when a path is at
\* hand (cached, or the first exact file-name match of a successful search)
\* and the fetch of that path yields a text that is not empty; it then
\* returns that text and schedules the path-cache write of that path for
\* the file name and branch of the call.  Otherwise it returns null and
\* schedules no write.
C23_SearchHitCachesPath ==
  call.fn = "searchGitLabRepo" =>
    LET hit == Listed /\ ExactPaths # <<>>
        path == IF Searches THEN ExactPaths[1] ELSE call.cachedFile.path
    IN  IF (~Searches \/ hit) /\ Fetched
          THEN /\ returned.found
               /\ returned.content = [kind |-> "text", text |-> path]
               /\ returned.path = path
               /\ returned.write = [path |-> path, branch |-> call.branch,
                                    filename |-> call.filename]
          ELSE /\ ~returned.found
               /\ returned.content = NullContent
               /\ returned.write = NoPathEntry

\* a search for llms.txt lists a README and an llms.txt in a subdirectory:
\* the llms.txt is fetched, returned and its path handed to the path cache
C23_Witness ==
  /\ Searches
  /\ call.filename = LLMS_TXT
  /\ call.in.results = <<ROOT_README, NESTED_LLMS>>
  /\ returned.found
  /\ returned.path = NESTED_LLMS.path
  /\ returned.write.path = NESTED_LLMS.path

\* the enqueuer was entered by the resolution in progress: it built its
\* message, or found no queue and logged that
Enqueued == message # NoMessage \/ "queue unavailable" \in logged

\* a resolution with namespace and project set ends
Ends ==
  /\ repoData.hasRepo
  /\ rpc \notin {"idle", "returned", "threw"}
  /\ rpc' \in {"returned", "threw"}

\* C24 (as claimed): a resolution with namespace and project set that ends
\* at the content-cache check (a hit) has not triggered the enqueuer; every
\* other one ends by the return that follows the trigger of the enqueuer,
\* which is entered once, when the cascade is over.
C24_EnqueuerOncePerResolution ==
  [][Ends =>
       IF rpc = "check" THEN ~Enqueued /\ EnqueueTask \notin tasks'
       ELSE rpc = "dispatched" /\ Enqueued]_allvars

\* C25 (as claimed): in every state of the process-wide rate-limit state,
\* remaining is an integer that is not negative and limit is an integer
\* greater than zero, whatever header values the responses carried.
C25_RateLimitStateInRange ==
  /\ IsNum(apiRateLimit.remaining) /\ apiRateLimit.remaining.v >= 0
  /\ IsNum(apiRateLimit.limit) /\ apiRateLimit.limit.v > 0

\* a 429 response is retried, and the attempt before it was a retried 429 of
\* the same request
ThrottledAgain ==
  /\ retryCount >= 1
  /\ retryCount' = retryCount + 1
  /\ Len(outcomes) >= 1 /\ Last(outcomes) = 429
  /\ Last(outcomes') = 429

\* C27 (as claimed): the waits before the successive retries of a
\* rate-limited request grow by a constant factor greater than 1; in
\* particular each is longer than the one before it.
C27_ExponentialBackoff ==
  [][ThrottledAgain => retryWait' > retryWait]_allvars

\* the attempts of the request in progress, or of the last one
Attempted == Len(outcomes) + (IF pc = "inflight" THEN 1 ELSE 0)

\* the counter is the number of attempts of the request that failed and were
\* retried, each of them a 429 or a network failure, and is at most 3; the
\* attempts are at most 4
RetryCounterCounts ==
  /\ retryCount <= 3
  /\ Len(tokens) <= 4
  /\ Len(tokens) = Attempted
  /\ retryCount = Len(outcomes) - (IF pc = "done" THEN 1 ELSE 0)
  /\ \A i \in 1..retryCount : outcomes[i] \in {0, 429}

\* C30: whatever the mix of 429 responses and network failures, a logical
\* request makes at most MAX_RETRIES + 1 = 4 attempts; the one counter of
\* both kinds never exceeds 3 and changes only by a retry, which adds
\* exactly one, or by a new call, which starts at 0.
C30_SharedRetryCounter ==
  /\ []RetryCounterCounts
  /\ [][\/ retryCount' = retryCount
        \/ retryCount' = retryCount + 1 /\ pc = "inflight"
        \/ retryCount' = 0 /\ pc \in {"idle", "done"}]_allvars

\* a request has made four attempts, throttled and failed in turn, and is
\* over
C30_Witness ==
  /\ pc = "done"
  /\ outcomes = <<429, 0, 429, 0>>
  /\ retryCount = 3
  /\ Len(tokens) = 4

\* the awaits of a resolution, in the order of the code
STAGES ==
  <<"check", "branch", "probe", "search", "blob", "readme", "dispatched">>

\* where a resolution stands: the index of its await, past the last of them
\* once it is over
Stage(r) ==
  IF \E k \in DOMAIN STAGES : STAGES[k] = r
    THEN CHOOSE k \in DOMAIN STAGES : STAGES[k] = r
    ELSE Len(STAGES) + 1

Resolving == \E k \in DOMAIN STAGES : STAGES[k] = rpc

\* what one strategy issues: getRepoBranch at most the metadata request and
\* the two probes, the static probe one fetch per path, a search at most the
\* search request and the fetch of the path
OperationsBounded ==
  /\ IsPrefix(trace, CASCADE)
  /\ rpc = "branch" =>
       \A b \in BranchOutcomes :
         /\ Len(b.requests) <= 3
         /\ IsPrefix(b.requests, <<"metadata", "main", "master">>)
  /\ rpc = "probe" => Len(possibleLocations) = 3
  /\ \A filename \in {LLMS_TXT, README_QUERY} :
       rpc = (IF filename = LLMS_TXT THEN "search" ELSE "readme") =>
         \A o \in SearchOutcomes(pathCache, filename, docsBranch) :
           /\ Len(o.requests) <= 2
           /\ \A j, k \in DOMAIN o.requests :
                o.requests[j] = o.requests[k] => j = k

PathSegments ==
  LET raw == Pathname(call.requestUrl)
  IN  SelectSeq(raw, LAMBDA x : x # "")

\* the hosts that serve repositories by path
RepositoryHosts ==
  {HOST_GITMCP, HOST_TEMP_URL, HOST_WORKERS, HOST_ESEMPLA, HOST_LOCAL}

\* C28: for a request path of n >= 2 segments on a repository host,
\* getRepoData returns urlType "gitlab", the last segment as project and the
\* segments before it, joined by "/", as namespace.
C28_NestedNamespace ==
  /\ call.fn = "getRepoData"
  /\ call.requestHost \in RepositoryHosts
  /\ Len(PathSegments) >= 2
  => /\ returned.urlType = "gitlab"
     /\ returned.host = call.requestHost
     /\ returned.project = Str(<<PathSegments[Len(PathSegments)]>>)
     /\ returned.namespace = Str(SubSeq(PathSegments, 1, Len(PathSegments) - 1))

\* company/team/subteam/project on gitmcp.io gives namespace
\* company/team/subteam and project project
C28_Witness ==
  /\ call.fn = "getRepoData"
  /\ call.requestHost = HOST_GITMCP
  /\ call.requestUrl =
       [form |-> "path", raw |-> <<"company", "team", "subteam", "project">>]
  /\ returned.namespace = Str(<<"company", "team", "subteam">>)
  /\ returned.project = Str(<<"project">>)

\* the entries whose key, or whose repo name, is the library name of the
\* call but for the case of the letters
MatchesBy(field) ==
  {i \in DOMAIN mapping :
     toLowerCase(mapping[i][field]) = toLowerCase(call.library)}

\* C29 (as claimed): for a library name that is not empty, the tool returns
\* the title, owner and repo of the entry whose key matches it but for case,
\* else of the entry whose repo name does, together with the name as given;
\* when neither matches it returns "No namespace/project found for" and the
\* name.
C29_CaseInsensitiveLookup ==
  call.fn = "match_common_libs_owner_repo_mapping" /\ call.library # <<>> =>
    LET keys == MatchesBy("key")
        repos == MatchesBy("repo")
        hits == IF keys # {} THEN keys ELSE repos
    IN  IF hits = {}
          THEN returned = [text |-> "No namespace/project found for",
                           library |-> call.library]
          ELSE \E i \in hits :
                 /\ returned.text = "JSON"
                 /\ returned.library = call.library
                 /\ returned.libraryTitle = Str(mapping[i].title)
                 /\ returned.namespace = Str(mapping[i].owner)
                 /\ returned.project = Str(mapping[i].repo)

\* C31: an attempt is issued only by the step that follows the pacing step
\* of that attempt, and the pacing step suspends for what respectRateLimits
\* says on the state it finds; a retry first sleeps its retry wait (the
\* reset-aware wait after a 429, 2000 ms after a network failure) and then
\* enters the pacing step, never the fetch.
C31_PacedBeforeEveryAttempt ==
  [][/\ (pc' = "inflight" /\ pc # "inflight" => pc = "issue")
     /\ (pc' = "issue" /\ pc # "issue" =>
           /\ pc = "respect"
           /\ pace' = respectRateLimits(apiRateLimit, Now)
           /\ apiRateLimit' = Elapse(apiRateLimit, pace'.ms))
     /\ (retryCount' = retryCount + 1 =>
           /\ pc = "inflight" /\ pc' = "respect"
           /\ retryWait' =
                TimerDelay(IF Last(outcomes') = 0 THEN NetworkRetryWait
                           ELSE RateLimitWaitTime(
                                  updateRateLimitFromHeaders(
                                    apiRateLimit, lastResp'.headers), Now)))
    ]_allvars

\* a retry after a network failure is in flight: its 2000 ms wait and then
\* the 1000 ms pacing delay have passed
C31_Witness ==
  /\ pc = "inflight"
  /\ outcomes = <<0>>
  /\ retryCount = 1
  /\ retryWait = 2000
  /\ pace = [kind |-> "delay", ms |-> 1000]

\* a response is received and observed
Observes == Len(outcomes') = Len(outcomes) + 1 /\ Last(outcomes') # 0

\* the time a step sleeps: the pacing suspension, or the wait before a retry
Slept ==
  IF pc = "respect" /\ pc' = "issue" THEN pace'.ms
  ELSE IF retryCount' = retryCount + 1 THEN retryWait'
  ELSE 0

\* C32: a step that observes no response (a call, the pacing step, the
\* issuing of the request, a network failure and the wait before its retry)
\* leaves remaining and limit as they are, and resetTime at the same
\* instant: in the frame of the clock it is moved back by the time slept
\* and by nothing else.
C32_StateChangesOnlyOnResponse ==
  [][~Observes =>
       /\ apiRateLimit'.remaining = apiRateLimit.remaining
       /\ apiRateLimit'.limit = apiRateLimit.limit
       /\ apiRateLimit'.resetTime =
            IF IsNum(apiRateLimit.resetTime)
              THEN Num(apiRateLimit.resetTime.v - Slept)
              ELSE apiRateLimit.resetTime]_allvars

\* a request whose first response set remaining, limit and resetTime has
\* failed on the network since and waits in the pacing step of its retry
C32_Witness ==
  /\ pc = "respect"
  /\ Len(outcomes) = 2 /\ outcomes[1] = 429 /\ outcomes[2] = 0
  /\ apiRateLimit.remaining = Num(3)
  /\ apiRateLimit.limit = Num(60)
  /\ IsNum(apiRateLimit.resetTime)

\* C33 (as claimed): a resolution that returns the sentinel text returns it
\* with the label "unknown".
C33_SentinelLabelUnknown ==
  rpc = "returned" /\ ret.content = SENTINEL => ret.fileUsed = "unknown"

\* C34 (as claimed): the file_url of the message handed to the enqueuer is
\* empty or locates the file whose content is returned (as a URL, or at
\* least as its path in the repository); it is empty when the content is
\* the blob store's and when no content was found.
C34_SourcePathMatchesContent ==
  rpc = "dispatched" /\ message # NoMessage =>
    /\ \/ message.file_url = NoPath
       \/ /\ HasContent
          /\ content = FileContent(message.file_url.path)
    /\ (content = GENERATED \/ ~HasContent => message.file_url = NoPath)

\* C35: a call of searchGitLabRepo that reads a path from the path cache
\* issues the fetch of that path and nothing else, whatever a search would
\* list; when the fetch yields text it returns it and schedules the write
\* of the same path for the branch of the call, and when it yields nothing
\* it returns null and schedules no write, so the entry stays as it is.
C35_CachedPathNoFallback ==
  call.fn = "searchGitLabRepo" /\ call.cachedFile.path # <<>> =>
    /\ returned.requests = <<"raw">>
    /\ IF Fetched
         THEN /\ returned.found
              /\ returned.path = call.cachedFile.path
              /\ returned.content = FileContent(call.cachedFile.path)
              /\ returned.write.branch = call.branch
         ELSE /\ ~returned.found
              /\ returned.content = NullContent
              /\ returned.write = NoPathEntry

\* the cached path is stale and a search would have found the file: null is
\* returned after the one fetch
C35_Witness ==
  /\ call.fn = "searchGitLabRepo"
  /\ call.cachedFile.path = NESTED_LLMS.path
  /\ call.filename = LLMS_TXT
  /\ Listed
  /\ call.in.results = <<ROOT_README, NESTED_LLMS>>
  /\ ~Succeeded(call.in.fetchResponse)
  /\ ~returned.found
  /\ returned.requests = <<"raw">>


\* a request leaves its fetch, with a response or a rejection
Settles(i) == reqs[i].pc = "inflight" /\ reqs'[i].pc # "inflight"

\* C36: the pacing decision of a request is the one taken when its own
\* respectRateLimits() ran: the fetch is issued on it whatever the shared
\* state has become meanwhile, so a request can be issued while the state
\* holds remaining < 5 and a reset time in the future without having
\* throttled.  Every observed response writes the shared state field by
\* field (a field whose header is present and non-empty gets the header's
\* value, any other field keeps its value), so after two concurrent
\* responses the state is that of the response observed last laid over the
\* one before; nothing but an observed response writes remaining or limit.
C36_ConcurrentRequestsRace ==
  [][\A i \in Requests :
       /\ (reqs[i].pc = "paced" /\ reqs'[i].pc = "inflight" =>
             /\ reqs'[i].paced = reqs[i].paced
             /\ UNCHANGED apiRateLimit
             /\ reqs'[i].raced =
                   (ShouldThrottle(apiRateLimit, Now)
                      /\ reqs[i].paced.kind # "throttle"))
       /\ (Settles(i) =>
             \A f \in Fields :
               apiRateLimit'[f] =
                 IF Truthy(HeaderOfField(f, reqs'[i].seen))
                   THEN FieldFromHeaders(f, reqs'[i].seen)
                   ELSE apiRateLimit[f])
       /\ ((\A j \in Requests : ~Settles(j)) =>
             /\ apiRateLimit'.remaining = apiRateLimit.remaining
             /\ apiRateLimit'.limit = apiRateLimit.limit)
    ]_allvars

\* two calls ran together: request 2 took its pacing decision before the
\* response of request 1 (remaining 3, reset 5 s ahead) was observed, was
\* issued after it without throttling, and its response (remaining 50, no
\* reset header) was observed last
C36_Witness ==
  /\ reqs[2].raced /\ reqs[2].paced.kind = "delay"
  /\ reqs[1].pc = "done" /\ reqs[2].pc = "done"
  /\ reqs[1].retryCount = 0 /\ reqs[2].retryCount = 0
  /\ reqs[1].seen.remaining = Str(<<"3">>)
  /\ reqs[1].seen.reset = ResetText(5)
  /\ reqs[2].seen.remaining = Str(<<"5", "0">>)
  /\ reqs[2].seen.reset = Absent
  /\ lastResp.id = 2
  /\ apiRateLimit.remaining = Num(50)
  /\ apiRateLimit.resetTime = Num(Now + 5000)

\* the probes of the subdomain flow, in the order of the code
PROBE_ORDER == <<"llms.txt", "landing page", "README.md">>
Probed == SelectSeq(trace, LAMBDA x : x # "blocked")
RobotsBlocked == \E k \in DOMAIN trace : trace[k] = "blocked"

\* the probes run in order, a block ends them, and its result is the
\* restriction message under the restriction label
PagesProbesInOrder ==
  repoData.urlType = "subdomain" =>
    /\ Len(Probed) <= Len(PROBE_ORDER)
    /\ Probed = SubSeq(PROBE_ORDER, 1, Len(Probed))
    /\ RobotsBlocked =>
         /\ trace[Len(trace)] = "blocked"
         /\ Len(Probed) = Len(trace) - 1
         /\ rpc \in {"dispatched", "returned"}
         /\ rpc = "dispatched" =>
              content = RESTRICTION /\ fileUsed = ROBOTS_LABEL
         /\ rpc = "returned" =>
              ret = [fileUsed |-> ROBOTS_LABEL, content |-> RESTRICTION]

\* C37 as stated: in the subdomain flow the probes run in the order
\* llms.txt, landing page, README.md; after a block by robots.txt nothing
\* more is fetched and the result is the restriction message with fileUsed
\* "robots.txt restriction"; the restriction message is scheduled for the
\* content cache
C37_RestrictionAlwaysCached ==
  /\ []PagesProbesInOrder
  /\ [][Returns /\ repoData.urlType = "subdomain" /\ RobotsBlocked =>
          ContentWrite(ret') \in tasks']_allvars

\* C37: in the subdomain flow the probes run in the order llms.txt, landing
\* page, README.md; after a block by robots.txt nothing more is fetched and
\* the result is the restriction message with fileUsed "robots.txt
\* restriction"; the restriction message is scheduled for the content cache
\* when the request has a namespace and a project, and nothing is scheduled
\* for the cache when the site is addressed without a path
C37_RestrictionCachedWithProject ==
  /\ []PagesProbesInOrder
  /\ [][Returns /\ repoData.urlType = "subdomain" /\ RobotsBlocked =>
          IF repoData.hasRepo
            THEN ContentWrite(ret') \in tasks'
            ELSE tasks' = tasks]_allvars

\* llms.txt was not there, the landing page was blocked, README.md was not
\* fetched, and the message is on its way to the cache
C37_Witness ==
  /\ rpc = "returned"
  /\ repoData = [urlType |-> "subdomain", hasRepo |-> TRUE]
  /\ trace = <<"llms.txt", "landing page", "blocked">>
  /\ ret = [fileUsed |-> ROBOTS_LABEL, content |-> RESTRICTION]
  /\ ContentWrite(ret) \in tasks

\* C38: a call of searchRepositoryCode that returns results reports the page
\* max(1, page), 30 results per page, and hasMorePages exactly when the
\* repository has more matches than pages 1..currentPage hold
C38_HasMorePagesExact ==
  call.fn = "searchRepositoryCode" /\ returned.kind = "results" =>
    /\ returned.pagination.currentPage =
         (IF call.page >= 1 THEN call.page ELSE 1)
    /\ returned.pagination.perPage = 30
    /\ returned.pagination.hasMorePages =
         (call.matches > returned.pagination.currentPage * 30)

\* C39: the tool name returned by enforceToolNameLengthLimit and the server
\* name of the project are together at most LIMIT (51) characters long,
\* whatever the prefix, the project and the suffix
C39_ToolNameWithinLimit ==
  call.fn = "enforceToolNameLengthLimit" =>
    Len(returned.toolName) + call.serverNameLen <= 51
====
